---- MODULE Spec2Model ----
(***************************************************************************)
(* Veteran Transition Navigator: the analyzer service (provider selection  *)
(* with fallback), the Demo provider (template selection by hash and the   *)
(* pathway customizer) and the Real provider (one outbound call, response  *)
(* validated against AnalysisResultSchema).                                *)
(*                                                                         *)
(* Strings the code computes on (hash input, toLowerCase/includes,         *)
(* toLocaleString output) are sequences of UTF-16 code units; strings the  *)
(* code only copies are TLA+ strings.                                      *)
(***************************************************************************)
EXTENDS Integers, Sequences, FiniteSets, TLC

(***************************************************************************)
(* Bounds of the model                                                     *)
(***************************************************************************)
\* number of analyzeProfile invocations that may be in flight or finished
MaxCalls == 2

(***************************************************************************)
(* String literals as code-unit sequences                                  *)
(***************************************************************************)
\* "11B"
S_11B == <<49, 49, 66>>

\* "25B"
S_25B == <<50, 53, 66>>

\* "68W"
S_68W == <<54, 56, 87>>

\* "Army"
S_Army == <<65, 114, 109, 121>>

\* "Navy"
S_Navy == <<78, 97, 118, 121>>

\* "Leadership"
S_Leadership == <<76, 101, 97, 100, 101, 114, 115, 104, 105, 112>>

\* "Radio"
S_Radio == <<82, 97, 100, 105, 111>>

\* "Linux"
S_Linux == <<76, 105, 110, 117, 120>>

\* "Bachelor degree in CS"
S_BachelorCS == <<66, 97, 99, 104, 101, 108, 111, 114, 32, 100, 101, 103, 114, 101, 101, 32, 105, 110, 32, 67, 83>>

\* "Cisco certs"
S_Certs == <<67, 105, 115, 99, 111, 32, 99, 101, 114, 116, 115>>

\* "MASTER of science"
S_MASTER == <<77, 65, 83, 84, 69, 82, 32, 111, 102, 32, 115, 99, 105, 101, 110, 99, 101>>

\* "Team Lead"
S_TeamLead == <<84, 101, 97, 109, 32, 76, 101, 97, 100>>

\* "Squad Leader"
S_SquadLeader == <<83, 113, 117, 97, 100, 32, 76, 101, 97, 100, 101, 114>>

\* "bachelor"
S_bachelor == <<98, 97, 99, 104, 101, 108, 111, 114>>

\* "master"
S_master == <<109, 97, 115, 116, 101, 114>>

(***************************************************************************)
(* 32-bit integers as two 16-bit limbs (two's complement)                  *)
(***************************************************************************)
Int32Zero == [hi |-> 0, lo |-> 0]

\* hash << 5
Shl5(h) == [hi |-> (h.hi * 32 + (h.lo * 32) \div 65536) % 65536,
            lo |-> (h.lo * 32) % 65536]

\* a - b wrapped to 32 bits
Sub32(a, b) ==
  LET borrow == IF a.lo < b.lo THEN 1 ELSE 0
  IN [hi |-> (a.hi - b.hi - borrow + 131072) % 65536,
      lo |-> (a.lo - b.lo + 65536) % 65536]

\* a + c wrapped to 32 bits, c a UTF-16 code unit
AddChar(a, c) ==
  [hi |-> (a.hi + (a.lo + c) \div 65536) % 65536,
   lo |-> (a.lo + c) % 65536]

IsNegative32(h) == h.hi >= 32768

\* Math.abs of an int32: the magnitude as an unsigned 32-bit number
\* (Math.abs(-2^31) is 2^31, which the limbs [hi |-> 32768, lo |-> 0] hold)
Abs32(h) == IF IsNegative32(h) THEN Sub32(Int32Zero, h) ELSE h

\* the remainder of the low 16 bits alone
ModU32Low(h, n) == h.lo % n

\* (non-negative number below 2^32) % n, for 0 < n < 65536
ModU32(h, n) == ((h.hi % n) * (65536 % n) + (h.lo % n)) % n

\* one iteration of the loop: hash = (hash << 5) - hash + char; hash = hash & hash
HashStep(hash, char) == AddChar(Sub32(Shl5(hash), hash), char)

\* the loop of simpleHash from index i (1-based) on, hash holding the value so
\* far; the next value is bound by a quantifier, so that it is computed before
\* the following iteration starts
RECURSIVE HashLoop(_, _, _)
HashLoop(hash, str, i) ==
  IF i > Len(str) THEN hash
  ELSE CHOOSE r \in {HashLoop(next, str, i + 1) : next \in {HashStep(hash, str[i])}} : TRUE

\* simpleHash: let hash = 0; the loop; return Math.abs(hash) (the argument is
\* bound by a quantifier, so that it is computed once)
simpleHash(str) ==
  CHOOSE r \in {Abs32(HashLoop(Int32Zero, s, 1)) : s \in {str}} : TRUE

(***************************************************************************)
(* JavaScript string and number helpers                                    *)
(***************************************************************************)
\* String.prototype.toLowerCase on the ASCII range
ToLowerCase(s) == [i \in 1..Len(s) |-> IF s[i] >= 65 /\ s[i] <= 90 THEN s[i] + 32 ELSE s[i]]

\* String.prototype.includes
Includes(s, needle) ==
  \E k \in 0..(Len(s) - Len(needle)) :
    \A j \in 1..Len(needle) : s[k + j] = needle[j]

\* Array.prototype.join('') of an array of strings
RECURSIVE JoinEmpty(_)
JoinEmpty(arr) == IF arr = <<>> THEN <<>> ELSE Head(arr) \o JoinEmpty(Tail(arr))

\* decimal digits of a natural number
RECURSIVE Digits(_)
Digits(n) == IF n < 10 THEN <<48 + n>> ELSE Digits(n \div 10) \o <<48 + (n % 10)>>

\* three digits, zero padded (one group of a grouped number)
Pad3(n) == <<48 + (n \div 100), 48 + ((n \div 10) % 10), 48 + (n % 10)>>

\* Number.prototype.toLocaleString() of a non-negative integer (en-US grouping)
RECURSIVE ToLocaleString(_)
ToLocaleString(n) ==
  IF n < 1000 THEN Digits(n)
  ELSE ToLocaleString(n \div 1000) \o <<44>> \o Pad3(n % 1000)

\* the template literal `$${lo.toLocaleString()} - $${hi.toLocaleString()}`
SalaryRange(lo, hi) ==
  <<36>> \o ToLocaleString(lo) \o <<32, 45, 32, 36>> \o ToLocaleString(hi)

(***************************************************************************)
(* PATHWAY_TEMPLATES (roadmap steps are abridged to their number)          *)
(***************************************************************************)
T1_fastIncome ==
  [title |-> "Security Operations Specialist",
   description |-> "Immediate-hire positions in corporate security, armed security, or contract security operations.",
   startingSalary |-> 45000,
   roadmap |-> <<[phase |-> "Month 1-2: Certifications", duration |-> "6-8 weeks", steps |-> 4],
               [phase |-> "Month 3-12: Entry Role", duration |-> "10 months", steps |-> 4],
               [phase |-> "Year 2-3: Advancement", duration |-> "2 years", steps |-> 3]>>,
   credentials |-> <<[name |-> "State Security License", timeline |-> "2-4 weeks", cost |-> "$100 - $400"],
                   [name |-> "CPR/First Aid Certification", timeline |-> "1 day", cost |-> "$50 - $100"]>>,
   whyThisPath |-> "Fastest path to employment with your existing skills. Many companies actively recruit veterans for security roles."]

T1_balanced ==
  [title |-> "Law Enforcement Officer",
   description |-> "Police officer, deputy sheriff, or state trooper combining your military discipline with public service.",
   startingSalary |-> 52000,
   roadmap |-> <<[phase |-> "Month 1-6: Academy Prep", duration |-> "6 months", steps |-> 4],
               [phase |-> "Year 1-3: Probationary Officer", duration |-> "2-3 years", steps |-> 4],
               [phase |-> "Year 4-5: Specialization", duration |-> "2 years", steps |-> 3]>>,
   credentials |-> <<[name |-> "Police Academy", timeline |-> "5-6 months", cost |-> "Often paid by department"],
                   [name |-> "Associate's Degree in Criminal Justice (recommended)", timeline |-> "18-24 months", cost |-> "$0 (GI Bill)"]>>,
   whyThisPath |-> "Leverages your military training and discipline. Strong job security, benefits, and pension. Many departments offer veteran hiring preferences."]

T1_maxUpside ==
  [title |-> "Emergency Management Director",
   description |-> "Leadership role coordinating disaster response, public safety, and crisis management for government or large organizations.",
   startingSalary |-> 65000,
   roadmap |-> <<[phase |-> "Year 1: Education & Entry", duration |-> "12 months", steps |-> 4],
               [phase |-> "Year 2-3: Build Expertise", duration |-> "2 years", steps |-> 4],
               [phase |-> "Year 4-5: Leadership Track", duration |-> "2 years", steps |-> 4]>>,
   credentials |-> <<[name |-> "Bachelor's in Emergency Management", timeline |-> "24-36 months", cost |-> "$0 (GI Bill)"],
                   [name |-> "Certified Emergency Manager (CEM)", timeline |-> "1-2 years experience required", cost |-> "$500 - $1,000"],
                   [name |-> "FEMA Professional Development Series", timeline |-> "Ongoing", cost |-> "Free"]>>,
   whyThisPath |-> "Your combat experience translates directly to crisis management. High earning potential ($90K-$150K+ with experience). Growing field with strong demand."]

T1 ==
  [skillArea |-> "tactical operations, discipline, and teamwork",
   leadershipValue |-> "crisis management and team coordination",
   fastIncome |-> T1_fastIncome,
   balanced |-> T1_balanced,
   maxUpside |-> T1_maxUpside]

T2_fastIncome ==
  [title |-> "IT Help Desk Technician",
   description |-> "Entry-level IT support role providing technical assistance to users and troubleshooting common issues.",
   startingSalary |-> 42000,
   roadmap |-> <<[phase |-> "Month 1-3: Certifications", duration |-> "3 months", steps |-> 4],
               [phase |-> "Month 4-12: First Role", duration |-> "9 months", steps |-> 4],
               [phase |-> "Year 2-3: Advancement", duration |-> "2 years", steps |-> 4]>>,
   credentials |-> <<[name |-> "CompTIA A+", timeline |-> "2-3 months study", cost |-> "$250 (exam voucher)"],
                   [name |-> "CompTIA Network+", timeline |-> "2-3 months study", cost |-> "$358 (exam voucher)"]>>,
   whyThisPath |-> "Quick entry to IT field with strong demand. Certifications can be earned while job hunting. Remote work opportunities common."]

T2_balanced ==
  [title |-> "Cloud Infrastructure Engineer",
   description |-> "Design and manage cloud-based systems (AWS, Azure, Google Cloud) for organizations migrating to cloud infrastructure.",
   startingSalary |-> 70000,
   roadmap |-> <<[phase |-> "Month 1-6: Foundation", duration |-> "6 months", steps |-> 4],
               [phase |-> "Year 1-2: Specialization", duration |-> "18 months", steps |-> 4],
               [phase |-> "Year 3-5: Senior Level", duration |-> "3 years", steps |-> 4]>>,
   credentials |-> <<[name |-> "AWS Certified Solutions Architect - Associate", timeline |-> "3-4 months study", cost |-> "$150 (exam)"],
                   [name |-> "AWS Certified Solutions Architect - Professional", timeline |-> "6 months study", cost |-> "$300 (exam)"]>>,
   whyThisPath |-> "Cloud skills are in extremely high demand. Median salary $120K+. Remote work common. Certifications carry significant weight."]

T2_maxUpside ==
  [title |-> "Cybersecurity Architect",
   description |-> "Design and implement security frameworks protecting organizations from cyber threats. High-demand role with six-figure earning potential.",
   startingSalary |-> 85000,
   roadmap |-> <<[phase |-> "Year 1: Security Foundation", duration |-> "12 months", steps |-> 4],
               [phase |-> "Year 2-3: Advanced Skills", duration |-> "2 years", steps |-> 4],
               [phase |-> "Year 4-5: Architecture Level", duration |-> "2 years", steps |-> 4]>>,
   credentials |-> <<[name |-> "CompTIA Security+", timeline |-> "2-3 months", cost |-> "$392 (exam)"],
                   [name |-> "CISSP (Certified Information Systems Security Professional)", timeline |-> "6-12 months (requires experience)", cost |-> "$749 (exam)"],
                   [name |-> "Bachelor's in Cybersecurity", timeline |-> "24-36 months", cost |-> "$0 (GI Bill)"]>>,
   whyThisPath |-> "Cybersecurity professionals earn $100K-$200K+. Critical national need = job security. TS clearance from military is huge advantage. Remote work common."]

T2 ==
  [skillArea |-> "technical systems, communications, and troubleshooting",
   leadershipValue |-> "technical team leadership and problem-solving",
   fastIncome |-> T2_fastIncome,
   balanced |-> T2_balanced,
   maxUpside |-> T2_maxUpside]

T3_fastIncome ==
  [title |-> "Warehouse Operations Supervisor",
   description |-> "Oversee warehouse operations, inventory management, and team coordination for distribution centers or manufacturing facilities.",
   startingSalary |-> 48000,
   roadmap |-> <<[phase |-> "Month 1-2: Quick Start", duration |-> "2 months", steps |-> 4],
               [phase |-> "Month 3-12: Build Track Record", duration |-> "10 months", steps |-> 4],
               [phase |-> "Year 2-3: Advancement", duration |-> "2 years", steps |-> 4]>>,
   credentials |-> <<[name |-> "OSHA Forklift Certification", timeline |-> "1-2 days", cost |-> "$50 - $150"],
                   [name |-> "Certified Supply Chain Professional (CSCP)", timeline |-> "3-6 months study", cost |-> "$1,000 - $1,500"]>>,
   whyThisPath |-> "High demand for logistics professionals. Military logistics experience highly valued. Clear advancement path to six-figure management roles."]

T3_balanced ==
  [title |-> "Supply Chain Analyst",
   description |-> "Analyze supply chain data, optimize procurement processes, and improve efficiency for manufacturing or retail companies.",
   startingSalary |-> 58000,
   roadmap |-> <<[phase |-> "Month 1-6: Skills & Entry", duration |-> "6 months", steps |-> 4],
               [phase |-> "Year 1-3: Analysis Expertise", duration |-> "2-3 years", steps |-> 4],
               [phase |-> "Year 4-5: Senior Analyst or Manager", duration |-> "2 years", steps |-> 4]>>,
   credentials |-> <<[name |-> "APICS CSCP (Certified Supply Chain Professional)", timeline |-> "4-6 months study", cost |-> "$1,200 - $1,800"],
                   [name |-> "Advanced Excel & SQL (online courses)", timeline |-> "2-3 months", cost |-> "$200 - $500"]>>,
   whyThisPath |-> "Growing field with strong demand. Analytical skills transferable across industries. Path to six-figure supply chain leadership roles."]

T3_maxUpside ==
  [title |-> "Director of Supply Chain Operations",
   description |-> "Executive-level role overseeing end-to-end supply chain strategy, vendor relationships, and global logistics for large organizations.",
   startingSalary |-> 95000,
   roadmap |-> <<[phase |-> "Year 1: Foundation & MBA", duration |-> "12 months", steps |-> 4],
               [phase |-> "Year 2-3: Strategic Experience", duration |-> "2 years", steps |-> 4],
               [phase |-> "Year 4-5: Director Level", duration |-> "2 years", steps |-> 4]>>,
   credentials |-> <<[name |-> "MBA (Supply Chain/Operations Management)", timeline |-> "18-24 months", cost |-> "$0 - $20,000 (GI Bill + scholarships)"],
                   [name |-> "APICS CPIM (Certified in Production and Inventory Management)", timeline |-> "6-12 months", cost |-> "$1,500 - $2,500"]>>,
   whyThisPath |-> "Supply chain directors earn $130K-$250K+. Critical strategic role in organizations. Your military logistics background is exceptional preparation."]

T3 ==
  [skillArea |-> "logistics, supply chain management, and operational planning",
   leadershipValue |-> "process optimization and resource coordination",
   fastIncome |-> T3_fastIncome,
   balanced |-> T3_balanced,
   maxUpside |-> T3_maxUpside]

T4_fastIncome ==
  [title |-> "Emergency Medical Technician (EMT) / Paramedic",
   description |-> "Provide emergency medical care in ambulances, hospitals, or fire departments. Fast certification path with immediate job opportunities.",
   startingSalary |-> 38000,
   roadmap |-> <<[phase |-> "Month 1-4: EMT Certification", duration |-> "4 months", steps |-> 4],
               [phase |-> "Month 5-18: Build Experience", duration |-> "14 months", steps |-> 4],
               [phase |-> "Year 2-5: Paramedic & Beyond", duration |-> "3-4 years", steps |-> 4]>>,
   credentials |-> <<[name |-> "EMT-Basic Certification", timeline |-> "3-4 months", cost |-> "$1,000 - $2,000"],
                   [name |-> "Paramedic Certification", timeline |-> "6-12 months", cost |-> "$5,000 - $10,000 (financial aid available)"]>>,
   whyThisPath |-> "Military medic experience highly valued. Fast entry to healthcare field. Can work while pursuing further education (RN, PA)."]

T4_balanced ==
  [title |-> "Registered Nurse (RN)",
   description |-> "Provide direct patient care in hospitals, clinics, or specialty care settings. High demand, excellent job security, and strong earning potential.",
   startingSalary |-> 65000,
   roadmap |-> <<[phase |-> "Year 1-2: Nursing Degree", duration |-> "18-24 months", steps |-> 4],
               [phase |-> "Year 2-4: Clinical Experience", duration |-> "2-3 years", steps |-> 4],
               [phase |-> "Year 5: Specialization or Leadership", duration |-> "Ongoing", steps |-> 4]>>,
   credentials |-> <<[name |-> "BSN (Bachelor of Science in Nursing)", timeline |-> "18-24 months (accelerated)", cost |-> "$0 (GI Bill)"],
                   [name |-> "NCLEX-RN Exam", timeline |-> "2-3 months study", cost |-> "$200 (exam fee)"]>>,
   whyThisPath |-> "Nursing is one of the most in-demand careers nationwide. Median RN salary $77K. Travel nursing can earn $100K+. Excellent work-life balance options."]

T4_maxUpside ==
  [title |-> "Physician Assistant (PA)",
   description |-> "Practice medicine under physician supervision. Diagnose, treat, and prescribe medications. Exceptional earning potential with strong work-life balance.",
   startingSalary |-> 100000,
   roadmap |-> <<[phase |-> "Year 1: Prerequisites & PCE", duration |-> "12 months", steps |-> 4],
               [phase |-> "Year 2-3: PA School", duration |-> "24-27 months", steps |-> 4],
               [phase |-> "Year 4-5: Practice & Specialization", duration |-> "2+ years", steps |-> 4]>>,
   credentials |-> <<[name |-> "Master's in Physician Assistant Studies", timeline |-> "24-27 months", cost |-> "$0 - $30,000 (GI Bill + loans)"],
                   [name |-> "PANCE (PA National Certifying Exam)", timeline |-> "After graduation", cost |-> "$550 (exam)"]>>,
   whyThisPath |-> "PA median salary $121K. Work-life balance superior to physicians. Military medic experience strengthens application. Growing field with 31% job growth projected."]

T4 ==
  [skillArea |-> "medical care, emergency response, and patient care",
   leadershipValue |-> "high-stress decision making and team coordination",
   fastIncome |-> T4_fastIncome,
   balanced |-> T4_balanced,
   maxUpside |-> T4_maxUpside]

T5_fastIncome ==
  [title |-> "Aircraft Maintenance Technician",
   description |-> "Inspect, maintain, and repair aircraft for airlines, cargo companies, or maintenance facilities. Military aviation experience highly valued.",
   startingSalary |-> 52000,
   roadmap |-> <<[phase |-> "Month 1-18: A&P License", duration |-> "18 months", steps |-> 4],
               [phase |-> "Year 2-3: Build Experience", duration |-> "2 years", steps |-> 4],
               [phase |-> "Year 4-5: Senior Mechanic or Inspector", duration |-> "2+ years", steps |-> 4]>>,
   credentials |-> <<[name |-> "A&P (Airframe & Powerplant) License", timeline |-> "12-24 months", cost |-> "$15,000 - $40,000 (VA approved programs)"],
                   [name |-> "FCC License (for avionics)", timeline |-> "1-2 months", cost |-> "$60"]>>,
   whyThisPath |-> "Military aviation mechanics can often fast-track A&P. Airline jobs offer excellent benefits and profit sharing. Overtime can push total comp to $80K-$100K+."]

T5_balanced ==
  [title |-> "Commercial Pilot",
   description |-> "Fly cargo, charter, or airline aircraft. Transition military flight hours to civilian aviation career.",
   startingSalary |-> 60000,
   roadmap |-> <<[phase |-> "Month 1-12: Civilian Ratings", duration |-> "12 months", steps |-> 4],
               [phase |-> "Year 2-5: Regional Airline or Cargo", duration |-> "3-4 years", steps |-> 4],
               [phase |-> "Year 6+: Major Airline", duration |-> "Career", steps |-> 4]>>,
   credentials |-> <<[name |-> "Commercial Pilot License + Instrument Rating", timeline |-> "6-12 months (military conversion)", cost |-> "$5,000 - $15,000"],
                   [name |-> "Airline Transport Pilot (ATP)", timeline |-> "After 1,500 flight hours", cost |-> "$5,000 - $7,000"]>>,
   whyThisPath |-> "Military pilots have huge advantage. Pilot shortage = strong demand. Senior airline captains earn $300K-$400K+. Exceptional job security and benefits."]

T5_maxUpside ==
  [title |-> "Aviation Safety Inspector (FAA) / Aviation Manager",
   description |-> "Oversee aviation safety compliance, lead flight operations, or manage airline/airport operations.",
   startingSalary |-> 75000,
   roadmap |-> <<[phase |-> "Year 1-2: Build Civilian Credentials", duration |-> "2 years", steps |-> 4],
               [phase |-> "Year 3-5: Safety or Management Role", duration |-> "3 years", steps |-> 4],
               [phase |-> "Year 6+: Senior Leadership", duration |-> "Career", steps |-> 4]>>,
   credentials |-> <<[name |-> "Bachelor's in Aviation Management or Safety", timeline |-> "24-36 months", cost |-> "$0 (GI Bill)"],
                   [name |-> "FAA Safety Management System (SMS) Training", timeline |-> "3-6 months", cost |-> "$1,000 - $3,000"]>>,
   whyThisPath |-> "FAA inspector positions offer federal benefits, job security, and excellent work-life balance. Aviation directors at airlines earn $150K-$250K+."]

T5 ==
  [skillArea |-> "mechanical systems, precision maintenance, and technical operations",
   leadershipValue |-> "safety compliance and quality assurance",
   fastIncome |-> T5_fastIncome,
   balanced |-> T5_balanced,
   maxUpside |-> T5_maxUpside]

PATHWAY_TEMPLATES == <<T1, T2, T3, T4, T5>>

(***************************************************************************)
(* Demo provider                                                           *)
(***************************************************************************)
PathwayTypes == {"fast-income", "balanced", "max-upside"}

\* a property read yields undefined when the record lacks the key
Has(obj, key) == key \in DOMAIN obj

\* analyzeDemoMode throws a TypeError when it calls a method on undefined:
\* technicalSkills.join, educationInterest.toLowerCase (analyzeDemoMode) and
\* leadershipExperience.toLowerCase (generateSummary)
DemoThrows(profile) ==
  \/ ~Has(profile, "technicalSkills")
  \/ ~Has(profile, "educationInterest")
  \/ ~Has(profile, "leadershipExperience")

\* hashInput = profile.mos + profile.branch + profile.technicalSkills.join('')
HashInput(profile) == profile.mos \o profile.branch \o JoinEmpty(profile.technicalSkills)

\* templateIndex = hash % PATHWAY_TEMPLATES.length (0-based)
TemplateIndex(profile, T) == ModU32(simpleHash(HashInput(profile)), Len(T))

SelectTemplate(profile, T) == T[TemplateIndex(profile, T) + 1]

\* the same test on the answer as typed
HasHighEducationInterestExact(profile) ==
  \/ Includes(profile.educationInterest, S_bachelor)
  \/ Includes(profile.educationInterest, S_master)

HasHighEducationInterest(profile) ==
  \/ Includes(ToLowerCase(profile.educationInterest), S_bachelor)
  \/ Includes(ToLowerCase(profile.educationInterest), S_master)

\* the interpolated values of the summary template literal, in order
generateSummary(profile, template) ==
  <<profile.yearsOfService, profile.rank, profile.branch, profile.mos,
    template.skillArea, ToLowerCase(profile.leadershipExperience),
    template.leadershipValue,
    IF profile.willingToRelocate
      THEN <<"Your flexibility to relocate opens up opportunities in high-demand markets.">>
      ELSE <<"Focusing on opportunities in", profile.currentLocation, "and surrounding areas.">> >>

\* a bonus paid to everyone
LocationBonusFlat(willingToRelocate) == 15000

LocationBonus(willingToRelocate) == IF willingToRelocate THEN 15000 ELSE 0

generateFastIncome(profile, template, willingToRelocate) ==
  LET baseIncome == template.fastIncome.startingSalary + LocationBonus(willingToRelocate)
  IN [type |-> "fast-income",
      title |-> template.fastIncome.title,
      description |-> template.fastIncome.description,
      incomeTrajectory |->
        [year1 |-> SalaryRange(baseIncome, baseIncome + 10000),
         year3 |-> SalaryRange(baseIncome + 15000, baseIncome + 25000),
         year5 |-> SalaryRange(baseIncome + 30000, baseIncome + 45000)],
      roadmap |-> template.fastIncome.roadmap,
      requiredCredentials |-> template.fastIncome.credentials,
      familyImpact |->
        [timeCommitment |-> "Low (40-45 hrs/week)",
         flexibility |-> "High - stable schedule",
         stability |-> "High - immediate employment",
         notes |-> "Ideal for veterans needing quick income with family responsibilities."],
      whyThisPath |-> template.fastIncome.whyThisPath]

EducationBonus(hasHighEducationInterest) == IF hasHighEducationInterest THEN 10000 ELSE 0

BachelorCredential ==
  [name |-> "Bachelor's Degree (optional accelerated program)",
   timeline |-> "18-24 months",
   cost |-> "$5,000 - $15,000 (post-GI Bill)"]

generateBalanced(profile, template, hasHighEducationInterest) ==
  LET baseIncome == template.balanced.startingSalary + EducationBonus(hasHighEducationInterest)
  IN [type |-> "balanced",
      title |-> template.balanced.title,
      description |-> template.balanced.description,
      incomeTrajectory |->
        [year1 |-> SalaryRange(baseIncome, baseIncome + 12000),
         year3 |-> SalaryRange(baseIncome + 20000, baseIncome + 35000),
         year5 |-> SalaryRange(baseIncome + 45000, baseIncome + 65000)],
      roadmap |-> template.balanced.roadmap,
      requiredCredentials |->
        IF hasHighEducationInterest
          THEN Append(template.balanced.credentials, BachelorCredential)
          ELSE template.balanced.credentials,
      familyImpact |->
        [timeCommitment |-> "Moderate (45-50 hrs/week + some studying)",
         flexibility |-> "Moderate - some evening/weekend flexibility",
         stability |-> "Growing - increasing job security over time",
         notes |-> IF hasHighEducationInterest
                     THEN "Combining work with part-time education requires time management."
                     ELSE "Balanced approach with steady progression."],
      whyThisPath |-> template.balanced.whyThisPath]

\* the thresholds taken as exclusive
ExperienceBonusAbove(yearsOfService) ==
  IF yearsOfService > 8 THEN 15000 ELSE IF yearsOfService > 4 THEN 8000 ELSE 0

ExperienceBonus(yearsOfService) ==
  IF yearsOfService >= 8 THEN 15000 ELSE IF yearsOfService >= 4 THEN 8000 ELSE 0

\* generateMaxUpside, were its parameter hasHighEducationInterest to raise the
\* salary as in generateBalanced
generateMaxUpsideByEducation(profile, template, hasHighEducationInterest, yearsOfService) ==
  LET baseIncome == template.maxUpside.startingSalary + ExperienceBonus(yearsOfService)
                     + EducationBonus(hasHighEducationInterest)
  IN [type |-> "max-upside",
      title |-> template.maxUpside.title,
      description |-> template.maxUpside.description,
      incomeTrajectory |->
        [year1 |-> SalaryRange(baseIncome, baseIncome + 15000),
         year3 |-> SalaryRange(baseIncome + 35000, baseIncome + 60000),
         year5 |-> SalaryRange(baseIncome + 70000, baseIncome + 110000)],
      roadmap |-> template.maxUpside.roadmap,
      requiredCredentials |-> template.maxUpside.credentials,
      familyImpact |->
        [timeCommitment |-> "High (50-60 hrs/week + education)",
         flexibility |-> "Low initially - requires significant time investment",
         stability |-> "Moderate initially, High long-term",
         notes |-> "Requires upfront investment in education/training. Best for those with family support and financial runway."],
      whyThisPath |-> template.maxUpside.whyThisPath]

generateMaxUpside(profile, template, hasHighEducationInterest, yearsOfService) ==
  LET baseIncome == template.maxUpside.startingSalary + ExperienceBonus(yearsOfService)
  IN [type |-> "max-upside",
      title |-> template.maxUpside.title,
      description |-> template.maxUpside.description,
      incomeTrajectory |->
        [year1 |-> SalaryRange(baseIncome, baseIncome + 15000),
         year3 |-> SalaryRange(baseIncome + 35000, baseIncome + 60000),
         year5 |-> SalaryRange(baseIncome + 70000, baseIncome + 110000)],
      roadmap |-> template.maxUpside.roadmap,
      requiredCredentials |-> template.maxUpside.credentials,
      familyImpact |->
        [timeCommitment |-> "High (50-60 hrs/week + education)",
         flexibility |-> "Low initially - requires significant time investment",
         stability |-> "Moderate initially, High long-term",
         notes |-> "Requires upfront investment in education/training. Best for those with family support and financial runway."],
      whyThisPath |-> template.maxUpside.whyThisPath]

\* the value analyzeDemoMode resolves to, reading the catalogue T
analyzeDemoMode(profile, T) ==
  LET template == SelectTemplate(profile, T)
      hasHighEducationInterest == HasHighEducationInterest(profile)
  IN [summary |-> generateSummary(profile, template),
      pathways |->
        <<generateFastIncome(profile, template, profile.willingToRelocate),
          generateBalanced(profile, template, hasHighEducationInterest),
          generateMaxUpside(profile, template, hasHighEducationInterest,
                            profile.yearsOfService)>>]

\* what a run of analyzeDemoMode leaves in the catalogue: the generators copy
\* references out of the template and build the balanced credential list with a
\* spread, so the catalogue is not written (pushing onto the template's own
\* list would write it)
DemoCatalogueAfterPush(profile, T) ==
  IF DemoThrows(profile) \/ ~HasHighEducationInterest(profile) THEN T
  ELSE [T EXCEPT ![TemplateIndex(profile, T) + 1].balanced.credentials =
                    Append(@, BachelorCredential)]

DemoCatalogueAfter(profile, T) == T

(***************************************************************************)
(* AnalysisResultSchema (zod): presence of every required key, the type    *)
(* enum and the pathway count; parse returns a copy without unknown keys   *)
(***************************************************************************)
IncomeTrajectoryKeys == {"year1", "year3", "year5"}
RoadmapKeys == {"phase", "duration", "steps"}
CredentialKeys == {"name", "timeline", "cost"}
FamilyImpactKeys == {"timeCommitment", "flexibility", "stability", "notes"}
CareerPathwayKeys ==
  {"type", "title", "description", "incomeTrajectory", "roadmap",
   "requiredCredentials", "familyImpact", "whyThisPath"}
AnalysisResultKeys == {"summary", "pathways"}

\* z.object strips the keys it does not declare
Strip(obj, keys) == [k \in keys |-> obj[k]]

CareerPathwaySchemaOk(pw) ==
  /\ CareerPathwayKeys \subseteq DOMAIN pw
  /\ pw.type \in PathwayTypes
  /\ IncomeTrajectoryKeys \subseteq DOMAIN pw.incomeTrajectory
  /\ \A k \in 1..Len(pw.roadmap) : RoadmapKeys \subseteq DOMAIN pw.roadmap[k]
  /\ \A k \in 1..Len(pw.requiredCredentials) :
       CredentialKeys \subseteq DOMAIN pw.requiredCredentials[k]
  /\ FamilyImpactKeys \subseteq DOMAIN pw.familyImpact

CareerPathwaySchemaParse(pw) ==
  [type |-> pw.type,
   title |-> pw.title,
   description |-> pw.description,
   incomeTrajectory |-> Strip(pw.incomeTrajectory, IncomeTrajectoryKeys),
   roadmap |-> [k \in 1..Len(pw.roadmap) |-> Strip(pw.roadmap[k], RoadmapKeys)],
   requiredCredentials |->
     [k \in 1..Len(pw.requiredCredentials) |->
        Strip(pw.requiredCredentials[k], CredentialKeys)],
   familyImpact |-> Strip(pw.familyImpact, FamilyImpactKeys),
   whyThisPath |-> pw.whyThisPath]

\* AnalysisResultSchema.parse does not throw; z.array(...).length(3) is what
\* constrains the pathway count
AnalysisResultSchemaOkAnyLength(input) ==
  /\ AnalysisResultKeys \subseteq DOMAIN input
  /\ \A k \in 1..Len(input.pathways) : CareerPathwaySchemaOk(input.pathways[k])

AnalysisResultSchemaOk(input) ==
  /\ AnalysisResultKeys \subseteq DOMAIN input
  /\ Len(input.pathways) = 3
  /\ \A k \in 1..Len(input.pathways) : CareerPathwaySchemaOk(input.pathways[k])

\* the value AnalysisResultSchema.parse returns
AnalysisResultSchemaParse(input) ==
  [summary |-> input.summary,
   pathways |-> [k \in 1..Len(input.pathways) |->
                   CareerPathwaySchemaParse(input.pathways[k])]]

(***************************************************************************)
(* Thrown values: Error objects carry name and message; anything else      *)
(* (a rejected string) is not an instance of Error                         *)
(***************************************************************************)
ErrorValue(name, message) == [isError |-> TRUE, name |-> name, message |-> message]
NonError(value) == [isError |-> FALSE, name |-> "", message |-> value]

TypeErrorUndefined == ErrorValue("TypeError", "Cannot read properties of undefined")
MissingKeyError == ErrorValue("Error", "ANTHROPIC_API_KEY is required for Real Mode")
NoToolUseError == ErrorValue("Error", "No tool use found in Claude response")
ZodError == ErrorValue("ZodError", "schema validation failed")

\* what anthropic.messages.create may reject with
RemoteFailures ==
  {ErrorValue("Error", "Connection timeout"),
   NonError("string error")}

(***************************************************************************)
(* Real provider                                                           *)
(***************************************************************************)
\* Boolean(process.env.ANTHROPIC_API_KEY): an environment variable is unset
\* (<<>>) or holds a string (<<s>>); the empty string is falsy
Boolean(envVar) == envVar # <<>> /\ envVar[1] # ""

\* building the prompt calls join on technicalSkills and certifications, and on
\* preferredLocations when willingToRelocate
RealPromptThrows(profile) ==
  \/ ~Has(profile, "technicalSkills")
  \/ ~Has(profile, "certifications")
  \/ (profile.willingToRelocate /\ ~Has(profile, "preferredLocations"))

\* message.content.find(block => block.type === 'tool_use' && block.name === 'emit_analysis')
IsEmitAnalysis(block) == block.type = "tool_use" /\ block.name = "emit_analysis"

HasToolUse(message) == \E k \in 1..Len(message.content) : IsEmitAnalysis(message.content[k])

ToolUse(message) ==
  message.content[CHOOSE k \in 1..Len(message.content) :
                    /\ IsEmitAnalysis(message.content[k])
                    /\ \A j \in 1..(k - 1) : ~IsEmitAnalysis(message.content[j])]

\* analyzeRealMode after messages.create resolved with message: the outcome;
\* returning toolUse.input itself would skip the parse
RealModeOutcomeUnparsed(message) ==
  IF ~HasToolUse(message)
    THEN [kind |-> "raised", error |-> NoToolUseError]
    ELSE [kind |-> "returned", result |-> ToolUse(message).input]

RealModeOutcome(message) ==
  IF ~HasToolUse(message)
    THEN [kind |-> "raised", error |-> NoToolUseError]
  ELSE IF ~AnalysisResultSchemaOk(ToolUse(message).input)
    THEN [kind |-> "raised", error |-> ZodError]
  ELSE [kind |-> "returned", result |-> AnalysisResultSchemaParse(ToolUse(message).input)]

\* the steps analyzeRealMode takes after messages.create resolved
RealModeEvents(message) ==
  IF HasToolUse(message) THEN <<"AnalysisResultSchema.parse">> ELSE <<>>

(***************************************************************************)
(* Inputs: profiles                                                        *)
(***************************************************************************)
\* the profile of the spec's worked example
ProfileInfantry ==
  [branch |-> S_Army, yearsOfService |-> 8, rank |-> "E-6", mos |-> S_11B,
   technicalSkills |-> <<S_Leadership>>, certifications |-> <<"CPR">>,
   leadershipExperience |-> S_SquadLeader,
   familyStatus |-> "Married", dependents |-> 2, spouseEmployment |-> "Employed",
   currentLocation |-> "Fort Bragg, NC", willingToRelocate |-> TRUE,
   preferredLocations |-> <<"Texas">>,
   careerGoals |-> "Law enforcement", incomeExpectations |-> "$50,000+",
   educationInterest |-> S_BachelorCS, timeline |-> "6 months"]

\* a signal-corps profile after sampleProfile of the analyzer's tests
ProfileSignal ==
  [branch |-> S_Army, yearsOfService |-> 4, rank |-> "E-4", mos |-> S_25B,
   technicalSkills |-> <<S_Radio, S_Linux>>, certifications |-> <<>>,
   leadershipExperience |-> S_TeamLead,
   familyStatus |-> "Single", dependents |-> 0, spouseEmployment |-> "N/A",
   currentLocation |-> "Fort Hood, TX", willingToRelocate |-> TRUE,
   preferredLocations |-> <<"Austin, TX", "Dallas, TX">>,
   careerGoals |-> "IT career in civilian sector", incomeExpectations |-> "$60,000+",
   educationInterest |-> S_Certs, timeline |-> "3-6 months"]

ProfileMedic ==
  [branch |-> S_Navy, yearsOfService |-> 3, rank |-> "E-3", mos |-> S_68W,
   technicalSkills |-> <<>>, certifications |-> <<"EMT">>,
   leadershipExperience |-> <<>>,
   familyStatus |-> "Single", dependents |-> 0, spouseEmployment |-> "N/A",
   currentLocation |-> "San Diego, CA", willingToRelocate |-> FALSE,
   preferredLocations |-> <<>>,
   careerGoals |-> "Nursing", incomeExpectations |-> "$40,000+",
   educationInterest |-> S_MASTER, timeline |-> "12 months"]

\* obj without key: the record a caller passes when it skipped validation
Without(obj, key) == [k \in (DOMAIN obj) \ {key} |-> obj[k]]

ValidProfiles == {ProfileInfantry, ProfileMedic}

\* analyzeProfile does not validate its argument; these records lack a field
UnvalidatedProfiles ==
  {Without(ProfileInfantry, "technicalSkills"),
   Without(ProfileSignal, "certifications"),
   Without(ProfileMedic, "educationInterest")}

Profiles == ValidProfiles \cup UnvalidatedProfiles

(***************************************************************************)
(* Inputs: responses of the external service                               *)
(***************************************************************************)
\* a pathway of the mock result of the analyzer's tests ("$70k" as code units)
MockPathway(type, title) ==
  [type |-> type, title |-> title, description |-> "From API",
   incomeTrajectory |-> [year1 |-> <<36, 55, 48, 107>>, year3 |-> <<36, 57, 48, 107>>,
                         year5 |-> <<36, 49, 49, 48, 107>>],
   roadmap |-> <<[phase |-> "Phase 1", duration |-> "3 months", steps |-> 1]>>,
   requiredCredentials |-> <<[name |-> "Cert", timeline |-> "1 month", cost |-> "$100"]>>,
   familyImpact |-> [timeCommitment |-> "Full-time", flexibility |-> "High",
                     stability |-> "Good", notes |-> "Notes"],
   whyThisPath |-> "Reason"]

MockFast == MockPathway("fast-income", "Real Job")
MockBalanced == MockPathway("balanced", "Balanced Job")
MockMax == MockPathway("max-upside", "Max Job")

Payload(pathways) == [summary |-> <<"Real mode result">>, pathways |-> pathways]

EmitAnalysis(input) ==
  [content |-> <<[type |-> "tool_use", name |-> "emit_analysis", input |-> input]>>]

Responses ==
  { \* conforming payload
    EmitAnalysis(Payload(<<MockFast, MockBalanced, MockMax>>)),
    \* conforming payload with keys the schema does not declare
    EmitAnalysis([summary |-> <<"Real mode result">>, confidence |-> "high",
                  pathways |-> <<MockFast, MockBalanced,
                                 [k \in CareerPathwayKeys \cup {"score"} |->
                                    IF k = "score" THEN "9" ELSE MockMax[k]]>>]),
    \* three well-formed pathways that repeat a type
    EmitAnalysis(Payload(<<MockFast, MockFast, MockBalanced>>)),
    \* a text block and a tool_use block of another tool: no emit_analysis block
    [content |-> <<[type |-> "text", text |-> "Here is my analysis"],
                   [type |-> "tool_use", name |-> "other_tool",
                    input |-> Payload(<<MockFast, MockBalanced, MockMax>>)]>>],
    \* summary missing
    EmitAnalysis([pathways |-> <<MockFast, MockBalanced, MockMax>>]),
    \* two and four pathways
    EmitAnalysis(Payload(<<MockFast, MockBalanced>>)),
    EmitAnalysis(Payload(<<MockFast, MockBalanced, MockMax, MockMax>>)),
    \* a type outside the enum
    EmitAnalysis(Payload(<<MockFast, MockBalanced, MockPathway("slow-income", "Job")>>)),
    \* required sub-fields missing
    EmitAnalysis(Payload(<<MockFast, Without(MockBalanced, "familyImpact"), MockMax>>)),
    EmitAnalysis(Payload(<<MockFast, MockBalanced,
                           [MockMax EXCEPT !.incomeTrajectory = Without(@, "year3")]>>)) }

(***************************************************************************)
(* State                                                                   *)
(***************************************************************************)
VARIABLES
  env,        \* process.env.ANTHROPIC_API_KEY: <<>> when unset, <<s>> when set to s
  templates,  \* the module-level PATHWAY_TEMPLATES array
  pc,         \* per invocation of analyzeProfile: idle, awaitRemote, done
  profile,    \* per invocation: the argument
  response,   \* per invocation: the message messages.create resolved with
  thrown,     \* per invocation: the value the try block threw
  outcome,    \* per invocation: what the returned promise settled with
  events,     \* per invocation: the calls made, in program order
  warnLog     \* per invocation: its calls of logger.warn, in order

vars == <<env, templates, pc, profile, response, thrown, outcome, events, warnLog>>

\* the state of the other components: the rate limiter and the route handler,
\* the callers of analyzeDemoMode, and the arguments and values of the pure
\* functions
VARIABLES
  now,          \* Date.now(), in ms since the process started
  ticks,        \* how often the clock was advanced
  rateLimitStore, \* the Map of the rate limiter: IP -> [count, resetTime]
  cleanupTimer, \* whether setInterval was called (cleanupTimer is not null)
  window,       \* history: per IP the start of its current window and the checks in it
  last,         \* history: the latest call of the rate limiter and its return value
  uncleaned,    \* history: rateLimitStore as it would be had the cleanup never run
  req,          \* the request POST /api/analyze is handling, its position and response
  runs,         \* the calls of analyzeDemoMode made so far, with argument and result
  arg,          \* the argument of a pure function under evaluation
  ret           \* its value

\* the state of the page (app/page.tsx): stage, results and errorMessage of
\* useState, and the promise of its fetch
VARIABLES stage, results, errorMessage, fetched
pageVars == <<stage, results, errorMessage, fetched>>
PageParked ==
  stage = "" /\ results = <<>> /\ errorMessage = <<>> /\ fetched = <<>>

limiterVars == <<now, ticks, rateLimitStore, cleanupTimer, window, last, uncleaned>>
routeVars == <<limiterVars, req>>
demoVars == <<templates, runs>>
pureVars == <<arg, ret>>

\* the components a specification does not exercise stay as they are here
LimiterParked ==
  /\ now = 0 /\ ticks = 0 /\ rateLimitStore = <<>> /\ cleanupTimer = FALSE
  /\ window = <<>> /\ last = <<>> /\ uncleaned = <<>>
RouteParked == req = <<>>
DemoParked == runs = <<>>
PureParked == arg = <<>> /\ ret = <<>>

Calls == 1..MaxCalls

Nothing == [nothing |-> TRUE]

Init ==
  /\ env \in {<<>>, <<"">>, <<"sk-test-key">>}
  /\ templates = PATHWAY_TEMPLATES
  /\ pc = [i \in Calls |-> "idle"]
  /\ profile = [i \in Calls |-> Nothing]
  /\ response = [i \in Calls |-> Nothing]
  /\ thrown = [i \in Calls |-> Nothing]
  /\ outcome = [i \in Calls |-> [kind |-> "pending"]]
  /\ events = [i \in Calls |-> <<>>]
  /\ warnLog = [i \in Calls |-> <<>>]
  /\ LimiterParked /\ RouteParked /\ DemoParked /\ PureParked /\ PageParked

(***************************************************************************)
(* analyzeProfile                                                          *)
(***************************************************************************)
\* const hasApiKey = Boolean(process.env.ANTHROPIC_API_KEY)
HasApiKeyIfDefined(e) == e # <<>>

HasApiKey(e) == Boolean(e)

\* try { ... } catch (error) catches every thrown value, Error or not
CaughtIfError(error) == error.isError

Caught(error) == TRUE

\* the meta object of the fallback warning
WarnMetaUnguarded(error) == [error |-> error.message, errorType |-> error.name]

WarnMeta(error) ==
  [error |-> IF error.isError THEN error.message ELSE "Unknown error",
   errorType |-> IF error.isError THEN error.name ELSE "Unknown"]

WarnMessage == "Real mode failed, falling back to demo mode"

\* what the promise of analyzeDemoMode settles with, were the last computed
\* result kept and handed to the next invocation
DemoOutcomeMemo(p, T) ==
  IF \E j \in Calls : outcome[j].kind = "returned"
    THEN outcome[CHOOSE j \in Calls : outcome[j].kind = "returned"]
  ELSE IF DemoThrows(p)
    THEN [kind |-> "raised", error |-> TypeErrorUndefined]
    ELSE [kind |-> "returned", result |-> analyzeDemoMode(p, T)]

\* what the promise of analyzeDemoMode settles with
DemoOutcome(p, T) ==
  IF DemoThrows(p)
    THEN [kind |-> "raised", error |-> TypeErrorUndefined]
    ELSE [kind |-> "returned", result |-> analyzeDemoMode(p, T)]

\* the catch clause of the invocation with argument p, entered with ev the calls
\* made so far: logger.warn, then return analyzeDemoMode(profile)
CatchClauseSwallow(i, p, error, ev) ==
  /\ warnLog' = [warnLog EXCEPT ![i] =
                   Append(@, [message |-> WarnMessage, meta |-> WarnMeta(error)])]
  /\ events' = [events EXCEPT ![i] = ev \o <<"logger.warn", "analyzeDemoMode">>]
  /\ outcome' = [outcome EXCEPT ![i] =
                   IF DemoThrows(p)
                     THEN [kind |-> "returned", result |-> Nothing]
                     ELSE DemoOutcome(p, templates)]
  /\ templates' = DemoCatalogueAfter(p, templates)

CatchClause(i, p, error, ev) ==
  /\ warnLog' = [warnLog EXCEPT ![i] =
                   Append(@, [message |-> WarnMessage, meta |-> WarnMeta(error)])]
  /\ events' = [events EXCEPT ![i] = ev \o <<"logger.warn", "analyzeDemoMode">>]
  /\ outcome' = [outcome EXCEPT ![i] = DemoOutcome(p, templates)]
  /\ templates' = DemoCatalogueAfter(p, templates)

\* the try block threw error after the calls ev: the catch clause runs, or the
\* exception leaves analyzeProfile
RealThrew(i, p, error, ev) ==
  /\ thrown' = [thrown EXCEPT ![i] = error]
  /\ pc' = [pc EXCEPT ![i] = "done"]
  /\ IF Caught(error)
       THEN CatchClause(i, p, error, ev)
       ELSE /\ events' = [events EXCEPT ![i] = ev]
            /\ outcome' = [outcome EXCEPT ![i] = [kind |-> "raised", error |-> error]]
            /\ UNCHANGED <<warnLog, templates>>

\* no credential: return analyzeDemoMode(profile)
InvokeDemo(i, p) ==
  /\ pc[i] = "idle"
  /\ ~HasApiKey(env)
  /\ profile' = [profile EXCEPT ![i] = p]
  /\ events' = [events EXCEPT ![i] = <<"analyzeDemoMode">>]
  /\ outcome' = [outcome EXCEPT ![i] = DemoOutcome(p, templates)]
  /\ templates' = DemoCatalogueAfter(p, templates)
  /\ pc' = [pc EXCEPT ![i] = "done"]
  /\ UNCHANGED <<env, response, thrown, warnLog>>
  /\ UNCHANGED <<routeVars, runs, pureVars>>

\* credential present: await analyzeRealMode(profile), which throws before
\* any request or runs up to its await of anthropic.messages.create
InvokeReal(i, p) ==
  /\ pc[i] = "idle"
  /\ HasApiKey(env)
  /\ profile' = [profile EXCEPT ![i] = p]
  /\ IF ~Boolean(env)
       THEN RealThrew(i, p, MissingKeyError, <<"analyzeRealMode">>)
     ELSE IF RealPromptThrows(p)
       THEN RealThrew(i, p, TypeErrorUndefined, <<"analyzeRealMode">>)
     ELSE /\ events' = [events EXCEPT ![i] = <<"analyzeRealMode", "messages.create">>]
          /\ pc' = [pc EXCEPT ![i] = "awaitRemote"]
          /\ UNCHANGED <<thrown, outcome, warnLog, templates>>
  /\ UNCHANGED <<env, response>>
  /\ UNCHANGED <<routeVars, runs, pureVars>>

\* messages.create resolved: analyzeRealMode extracts and validates the tool
\* input; analyzeProfile returns the result, or its catch clause runs
RemoteResolveThenDemo(i, message) ==
  /\ pc[i] = "awaitRemote"
  /\ response' = [response EXCEPT ![i] = message]
  /\ LET real == RealModeOutcome(message)
         ev == events[i] \o RealModeEvents(message)
     IN IF real.kind = "returned"
          THEN /\ events' = [events EXCEPT ![i] = Append(ev, "analyzeDemoMode")]
               /\ pc' = [pc EXCEPT ![i] = "done"]
               /\ outcome' = [outcome EXCEPT ![i] = DemoOutcome(profile[i], templates)]
               /\ UNCHANGED <<thrown, warnLog, templates>>
          ELSE RealThrew(i, profile[i], real.error, ev)
  /\ UNCHANGED <<env, profile>>
  /\ UNCHANGED <<routeVars, runs, pureVars>>

RemoteResolve(i, message) ==
  /\ pc[i] = "awaitRemote"
  /\ response' = [response EXCEPT ![i] = message]
  /\ LET real == RealModeOutcome(message)
         ev == events[i] \o RealModeEvents(message)
     IN IF real.kind = "returned"
          THEN /\ events' = [events EXCEPT ![i] = ev]
               /\ pc' = [pc EXCEPT ![i] = "done"]
               /\ outcome' = [outcome EXCEPT ![i] = real]
               /\ UNCHANGED <<thrown, warnLog, templates>>
          ELSE RealThrew(i, profile[i], real.error, ev)
  /\ UNCHANGED <<env, profile>>
  /\ UNCHANGED <<routeVars, runs, pureVars>>

\* messages.create rejected (network failure, API error, timeout, any value):
\* analyzeRealMode rejects with the same value
RemoteRejectRetry(i, error) ==
  /\ pc[i] = "awaitRemote"
  /\ IF Len(events[i]) < 3
       THEN /\ events' = [events EXCEPT ![i] = Append(@, "messages.create")]
            /\ UNCHANGED <<pc, thrown, outcome, warnLog, templates>>
       ELSE RealThrew(i, profile[i], error, events[i])
  /\ UNCHANGED <<env, profile, response>>
  /\ UNCHANGED <<routeVars, runs, pureVars>>

RemoteReject(i, error) ==
  /\ pc[i] = "awaitRemote"
  /\ RealThrew(i, profile[i], error, events[i])
  /\ UNCHANGED <<env, profile, response>>
  /\ UNCHANGED <<routeVars, runs, pureVars>>

\* isUsingDemoMode(): !Boolean(process.env.ANTHROPIC_API_KEY)
isUsingDemoModeIfUnset(e) == e = <<>>

isUsingDemoMode(e) == ~Boolean(e)

\* getCurrentMode()
getCurrentMode(e) == IF isUsingDemoMode(e) THEN "demo" ELSE "real"

\* the mode of the health endpoint: !!process.env.ANTHROPIC_API_KEY
HealthMode(e) == IF Boolean(e) THEN "real" ELSE "demo"

\* a call of getCurrentMode() and a GET of the health endpoint
QueryMode ==
  /\ ret = <<>>
  /\ ret' = [mode |-> getCurrentMode(env), health |-> HealthMode(env)]
  /\ UNCHANGED <<vars, limiterVars, req, runs, arg, pageVars>>

Next ==
  \/ \E i \in Calls, p \in Profiles : InvokeDemo(i, p) /\ UNCHANGED pageVars
  \/ \E i \in Calls, p \in Profiles : InvokeReal(i, p) /\ UNCHANGED pageVars
  \/ \E i \in Calls, m \in Responses : RemoteResolve(i, m) /\ UNCHANGED pageVars
  \/ \E i \in Calls, e \in RemoteFailures : RemoteReject(i, e) /\ UNCHANGED pageVars

Spec == Init /\ [][Next]_vars

(***************************************************************************)
(* Properties of analyzeProfile                                            *)
(***************************************************************************)
\* how often the call x occurs in a trace
Count(trace, x) == Cardinality({k \in DOMAIN trace : trace[k] = x})

\* every occurrence of b in the trace has an occurrence of a before it
Before(trace, a, b) ==
  \A kb \in DOMAIN trace :
    trace[kb] = b => \E ka \in 1..(kb - 1) : trace[ka] = a

\* a credential is configured: the variable is set and not the empty string
Credential == env # <<>> /\ env[1] # ""

\* invocation i has settled
Done(i) == pc[i] = "done"

\* the remote collaborator of invocation i failed / succeeded
RemoteFailed(i) == Done(i) /\ thrown[i] # Nothing
RemoteSucceeded(i) == Done(i) /\ response[i] # Nothing /\ thrown[i] = Nothing

\* what analyzeDemoMode computes for a profile from the catalogue as loaded
DemoResultOf(p) == analyzeDemoMode(p, PATHWAY_TEMPLATES)

\* the three pathway tags
Tags == {"fast-income", "balanced", "max-upside"}

\* C1: with a credential configured, whatever value analyzeRealMode throws (an
\* Error, a schema-validation error, a timeout, a non-Error value), the
\* exception does not leave analyzeProfile: the invocation returns exactly the
\* result analyzeDemoMode produces for the same profile.
C1_FallbackReturnsDemoResult ==
  \A i \in Calls :
    (Credential /\ RemoteFailed(i) /\ ~DemoThrows(profile[i])) =>
      outcome[i] = [kind |-> "returned",
                    result |-> DemoResultOf(profile[i])]

\* C1 witness: one invocation fell back after a thrown string, another after a
\* schema-validation error, and both returned
C1_Witness ==
  \E i, j \in Calls :
    /\ Credential
    /\ RemoteFailed(i) /\ thrown[i] = NonError("string error")
    /\ RemoteFailed(j) /\ thrown[j] = ZodError
    /\ profile[i] \in ValidProfiles /\ profile[j] \in ValidProfiles
    /\ outcome[i].kind = "returned" /\ outcome[j].kind = "returned"

\* C2: with no credential (variable unset or the empty string) every
\* invocation takes the Demo path: the remote collaborator is never called, no
\* request goes out, and the Demo result for the profile is what comes back.
C2_NoCredentialAlwaysDemo ==
  ~Credential =>
    \A i \in Calls :
      /\ Count(events[i], "analyzeRealMode") = 0
      /\ Count(events[i], "messages.create") = 0
      /\ Done(i) =>
           /\ events[i] = <<"analyzeDemoMode">>
           /\ ~DemoThrows(profile[i]) =>
                outcome[i] = [kind |-> "returned",
                              result |-> DemoResultOf(profile[i])]

\* C2 witness: the variable holds the empty string and an invocation on a valid
\* profile has returned
C2_Witness ==
  /\ env = <<"">>
  /\ \E i \in Calls :
       Done(i) /\ profile[i] \in ValidProfiles /\ outcome[i].kind = "returned"

\* the input of the emit_analysis block the remote collaborator of invocation i
\* received
RemotePayload(i) == ToolUse(response[i]).input

\* a and b carry the same value under every key of keys
SameUnder(a, b, keys) == \A k \in keys : a[k] = b[k]

\* the lists a and b have the same length and their entries carry the same
\* value under every key of keys
SameListUnder(a, b, keys) ==
  /\ Len(a) = Len(b)
  /\ \A k \in 1..Len(a) : SameUnder(a[k], b[k], keys)

\* the pathway r carries the value of the pathway p in every field the
\* CareerPathway shape declares, and has no other field
SameDeclaredPathway(r, p) ==
  /\ DOMAIN r = {"type", "title", "description", "incomeTrajectory", "roadmap",
                 "requiredCredentials", "familyImpact", "whyThisPath"}
  /\ SameUnder(r, p, {"type", "title", "description", "whyThisPath"})
  /\ SameUnder(r.incomeTrajectory, p.incomeTrajectory, {"year1", "year3", "year5"})
  /\ SameListUnder(r.roadmap, p.roadmap, {"phase", "duration", "steps"})
  /\ SameListUnder(r.requiredCredentials, p.requiredCredentials,
                   {"name", "timeline", "cost"})
  /\ SameUnder(r.familyImpact, p.familyImpact,
               {"timeCommitment", "flexibility", "stability", "notes"})

C4_OnePathwayPerTag ==
  \A i \in Calls :
    (Done(i) /\ profile[i] \in ValidProfiles /\ outcome[i].kind = "returned") =>
      /\ Len(outcome[i].result.pathways) = 3
      /\ \A t \in Tags :
           Cardinality({k \in 1..Len(outcome[i].result.pathways) :
                          outcome[i].result.pathways[k].type = t}) = 1

\* C5: Demo analysis is deterministic.  Invocations that ran analyzeDemoMode
\* on equal profiles, directly or in the fallback, settle alike, whatever other
\* analyses ran before or between them: the catalogue the template is selected
\* from is never written, and every Demo result is the one computed from the
\* catalogue as loaded.
C5_DemoDeterministic ==
  /\ templates = PATHWAY_TEMPLATES
  /\ \A i \in Calls :
       (Done(i) /\ Count(events[i], "analyzeDemoMode") = 1) =>
         /\ ~DemoThrows(profile[i]) =>
              /\ outcome[i].kind = "returned"
              /\ outcome[i].result = DemoResultOf(profile[i])
         /\ \A j \in Calls :
              (Done(j) /\ Count(events[j], "analyzeDemoMode") = 1
                 /\ profile[j] = profile[i]) => outcome[j] = outcome[i]

\* C5 witness: two invocations on the same valid profile, with an education
\* interest that adds a credential to the balanced pathway, both fell back to
\* Demo and returned the same result
C5_Witness ==
  \E i, j \in Calls :
    /\ i # j /\ RemoteFailed(i) /\ RemoteFailed(j)
    /\ profile[i] = ProfileInfantry /\ profile[j] = ProfileInfantry
    /\ outcome[i].kind = "returned" /\ outcome[j] = outcome[i]

\* a result with a summary and exactly three pathways, each with a tag of the
\* three and every nested object and field present
Complete(r) ==
  /\ {"summary", "pathways"} \subseteq DOMAIN r
  /\ Len(r.pathways) = 3
  /\ \A k \in 1..3 :
       LET p == r.pathways[k]
       IN /\ {"type", "title", "description", "incomeTrajectory", "roadmap",
              "requiredCredentials", "familyImpact", "whyThisPath"} \subseteq DOMAIN p
          /\ p.type \in Tags
          /\ {"year1", "year3", "year5"} \subseteq DOMAIN p.incomeTrajectory
          /\ \A n \in 1..Len(p.roadmap) :
               {"phase", "duration", "steps"} \subseteq DOMAIN p.roadmap[n]
          /\ \A n \in 1..Len(p.requiredCredentials) :
               {"name", "timeline", "cost"} \subseteq DOMAIN p.requiredCredentials[n]
          /\ {"timeCommitment", "flexibility", "stability", "notes"}
               \subseteq DOMAIN p.familyImpact

\* C6: an invocation that has settled either returned a complete
\* AnalysisResult or raised, and nothing settles before it is done.  Each
\* provider runs at most once per invocation; when the Demo computation of the
\* fallback fails, its error is what the caller gets: no second fallback and no
\* second remote attempt.
C6_CompleteResultOrRaise ==
  \A i \in Calls :
    /\ ~Done(i) => outcome[i].kind = "pending"
    /\ Done(i) =>
         /\ outcome[i].kind \in {"returned", "raised"}
         /\ outcome[i].kind = "returned" => Complete(outcome[i].result)
    /\ Count(events[i], "analyzeDemoMode") <= 1
    /\ Count(events[i], "analyzeRealMode") <= 1
    /\ Count(events[i], "logger.warn") <= 1
    /\ (RemoteFailed(i) /\ DemoThrows(profile[i])) =>
         /\ outcome[i] = [kind |-> "raised", error |-> TypeErrorUndefined]
         /\ events[i][Len(events[i])] = "analyzeDemoMode"

\* C6 witness: the remote request of an invocation failed and the Demo
\* computation of its fallback failed too, so the invocation raised
C6_Witness ==
  \E i \in Calls :
    /\ RemoteFailed(i) /\ Count(events[i], "messages.create") = 1
    /\ DemoThrows(profile[i])
    /\ outcome[i].kind = "raised"

\* C7: logger.warn is called exactly once by an invocation whose remote
\* collaborator failed and not at all by any other, before the Demo result is
\* computed, with the message and name of a thrown Error, and with
\* 'Unknown error' and 'Unknown' for a thrown value that is not an Error.
C7_OneWarningPerFallback ==
  \A i \in Calls :
    /\ Len(warnLog[i]) = (IF RemoteFailed(i) THEN 1 ELSE 0)
    /\ Count(events[i], "logger.warn") = Len(warnLog[i])
    /\ RemoteFailed(i) =>
         /\ Count(events[i], "analyzeDemoMode") = 1
         /\ Before(events[i], "logger.warn", "analyzeDemoMode")
         /\ warnLog[i][1].meta =
              IF thrown[i].isError
                THEN [error |-> thrown[i].message, errorType |-> thrown[i].name]
                ELSE [error |-> "Unknown error", errorType |-> "Unknown"]

\* C7 witness: one fallback logged an Error's name and message, another the
\* placeholders for a thrown string
C7_Witness ==
  \E i, j \in Calls :
    /\ Len(warnLog[i]) = 1 /\ Len(warnLog[j]) = 1
    /\ warnLog[i][1].meta = [error |-> "Connection timeout", errorType |-> "Error"]
    /\ warnLog[j][1].meta = [error |-> "Unknown error", errorType |-> "Unknown"]

\* the external response the claim C8 calls deficient: no emit_analysis
\* tool-use block, or a tool input that is not a complete result
NoEmitAnalysisBlock(message) ==
  \A k \in 1..Len(message.content) :
    ~(message.content[k].type = "tool_use" /\ message.content[k].name = "emit_analysis")

Deficient(message) ==
  NoEmitAnalysisBlock(message) \/ ~Complete(ToolUse(message).input)

\* C8: analyzeRealMode returns no partial or guessed data.  For a response
\* without an emit_analysis tool-use block, without a summary, with a pathway
\* count other than 3, with a type outside the three tags or with a required
\* sub-field missing it raises; whatever it returns was checked by
\* AnalysisResultSchema.parse and is complete.
C8_RealModeRejectsDeficient ==
  \A i \in Calls :
    (Done(i) /\ response[i] # Nothing) =>
      /\ Deficient(response[i]) =>
           /\ thrown[i] \in {NoToolUseError, ZodError}
           /\ thrown[i] = NoToolUseError <=> NoEmitAnalysisBlock(response[i])
      /\ thrown[i] = Nothing =>
           /\ ~Deficient(response[i])
           /\ Count(events[i], "AnalysisResultSchema.parse") = 1
           /\ outcome[i].kind = "returned" /\ Complete(outcome[i].result)

\* C8 witness: the remote collaborator raised on a response with four pathways
\* in one invocation and on a response without any tool-use block in another
C8_Witness ==
  \E i, j \in Calls :
    /\ Done(i) /\ response[i] # Nothing /\ thrown[i] = ZodError
    /\ ~NoEmitAnalysisBlock(response[i])
    /\ Len(ToolUse(response[i]).input.pathways) = 4
    /\ Done(j) /\ response[j] # Nothing /\ thrown[j] = NoToolUseError

\* C9: with a credential configured an invocation calls analyzeRealMode exactly
\* once, first of all, and that call issues at most one messages.create
\* request; a failed call is not repeated, and analyzeDemoMode runs only after
\* the remote call.
C9_OneRemoteCallNoRetry ==
  Credential =>
    \A i \in Calls :
      pc[i] # "idle" =>
        /\ events[i][1] = "analyzeRealMode"
        /\ Count(events[i], "analyzeRealMode") = 1
        /\ Count(events[i], "messages.create") <= 1
        /\ Before(events[i], "analyzeRealMode", "analyzeDemoMode")
        /\ RemoteFailed(i) =>
             events[i][Len(events[i])] = "analyzeDemoMode"

\* C9 witness: the one request of an invocation timed out and the invocation
\* went on to the Demo computation without a second request
C9_Witness ==
  \E i \in Calls :
    /\ Credential /\ RemoteFailed(i)
    /\ thrown[i] = ErrorValue("Error", "Connection timeout")
    /\ events[i] = <<"analyzeRealMode", "messages.create", "logger.warn", "analyzeDemoMode">>

\* the result invocation i returned was validated: AnalysisResultSchema.parse
\* ran after the provider call that produced the result
ValidatedBeforeReturn(i) ==
  \E k \in DOMAIN events[i] :
    /\ events[i][k] = "AnalysisResultSchema.parse"
    /\ \A n \in (k + 1)..Len(events[i]) : events[i][n] # "analyzeDemoMode"

Alone(i) ==
  IF ~Credential \/ thrown[i] # Nothing
    THEN (IF DemoThrows(profile[i])
            THEN [kind |-> "raised", error |-> TypeErrorUndefined]
            ELSE [kind |-> "returned", result |-> DemoResultOf(profile[i])])
    ELSE RealModeOutcome(response[i])

\* C17: in every interleaving of concurrent analyzeProfile invocations each one
\* returns what it would return alone, and a step of one invocation leaves the
\* credential, the catalogue and everything the other invocations hold as it
\* was.
C17_InvocationsIndependent ==
  /\ [](\A i \in Calls : Done(i) => outcome[i] = Alone(i))
  /\ [][/\ env' = env
        /\ templates' = templates
        /\ \A j \in Calls :
             pc'[j] = pc[j] =>
               /\ profile'[j] = profile[j] /\ response'[j] = response[j]
               /\ thrown'[j] = thrown[j] /\ outcome'[j] = outcome[j]
               /\ events'[j] = events[j] /\ warnLog'[j] = warnLog[j]]_vars

\* C17 witness: while one invocation is suspended in its remote call, another
\* one with a different profile has failed remotely and returned its fallback
C17_Witness ==
  \E i, j \in Calls :
    /\ pc[i] = "awaitRemote" /\ RemoteFailed(j)
    /\ profile[i] # profile[j]
    /\ outcome[j].kind = "returned" /\ outcome[j] = Alone(j)
(***************************************************************************)
(* Rate limiter (src/lib/rateLimit)                                        *)
(***************************************************************************)
\* the analyzer as a specification that does not exercise it leaves it
AnalyzerParked ==
  /\ env = <<>> /\ templates = <<>> /\ pc = <<>> /\ profile = <<>>
  /\ response = <<>> /\ thrown = <<>> /\ outcome = <<>> /\ events = <<>>
  /\ warnLog = <<>>

\* const RATE_LIMIT_WINDOW_MS = 15 * 60 * 1000
RATE_LIMIT_WINDOW_MS == 900000

\* const RATE_LIMIT_MAX_REQUESTS = 10
RATE_LIMIT_MAX_REQUESTS == 10

\* how often the clock may be advanced
MaxTicks == 3

\* the count an entry may reach before no further request of its IP is taken
MaxCount == 12

\* client IPs
IPs == {"10.0.0.1", "10.0.0.2"}

\* the amounts of time that may pass between two events: a millisecond, or a
\* whole window length
Steps == {1, RATE_LIMIT_WINDOW_MS}

\* new Map<string, RateLimitEntry>(): every key maps to its entry, or to
\* Nothing where Map.get gives undefined
EmptyStore == [ip \in IPs |-> Nothing]

\* rateLimitStore.set(ip, entry)
MapSet(map, key, value) == [map EXCEPT ![key] = value]

\* rateLimitStore.delete(ip)
MapDelete(map, key) == [map EXCEPT ![key] = Nothing]

\* !entry || entry.resetTime < now
NoEntryOrExpired(map, ip, t) ==
  IF map[ip] = Nothing THEN TRUE ELSE map[ip].resetTime < t

\* the entry of a new window: count 1, resetTime = now + RATE_LIMIT_WINDOW_MS
NewEntryKeepingReset(map, ip, t) ==
  [count |-> 1,
   resetTime |-> IF map[ip] # Nothing THEN map[ip].resetTime + RATE_LIMIT_WINDOW_MS
                 ELSE t + RATE_LIMIT_WINDOW_MS]

NewEntry(map, ip, t) == [count |-> 1, resetTime |-> t + RATE_LIMIT_WINDOW_MS]

\* entry.count > RATE_LIMIT_MAX_REQUESTS
OverLimitInclusive(count) == count >= RATE_LIMIT_MAX_REQUESTS

OverLimit(count) == count > RATE_LIMIT_MAX_REQUESTS

\* the store after checkRateLimit(ip) at time t
StoreAfterCheckFresh(map, ip, t) ==
  IF NoEntryOrExpired(map, ip, t)
    THEN MapSet(EmptyStore, ip, NewEntry(map, ip, t))
    ELSE MapSet(map, ip, [map[ip] EXCEPT !.count = @ + 1])

\* the store after checkRateLimit(ip) at time t, were the window of a blocked
\* request to start over
StoreAfterCheckExtending(map, ip, t) ==
  IF NoEntryOrExpired(map, ip, t)
    THEN MapSet(map, ip, NewEntry(map, ip, t))
    ELSE MapSet(map, ip,
           [count |-> map[ip].count + 1,
            resetTime |-> IF OverLimit(map[ip].count + 1)
                            THEN t + RATE_LIMIT_WINDOW_MS
                            ELSE map[ip].resetTime])

StoreAfterCheck(map, ip, t) ==
  IF NoEntryOrExpired(map, ip, t)
    THEN MapSet(map, ip, NewEntry(map, ip, t))
    ELSE MapSet(map, ip, [map[ip] EXCEPT !.count = @ + 1])

\* the value checkRateLimit(ip) returns at time t
CheckResult(map, ip, t) ==
  IF NoEntryOrExpired(map, ip, t)
    THEN [allowed |-> TRUE, remaining |-> RATE_LIMIT_MAX_REQUESTS - 1,
          resetTime |-> NewEntry(map, ip, t).resetTime]
  ELSE IF OverLimit(map[ip].count + 1)
    THEN [allowed |-> FALSE, remaining |-> 0, resetTime |-> map[ip].resetTime]
  ELSE [allowed |-> TRUE,
        remaining |-> RATE_LIMIT_MAX_REQUESTS - (map[ip].count + 1),
        resetTime |-> map[ip].resetTime]

\* the store after resetRateLimit(ip)
StoreAfterReset(map, ip) == MapDelete(map, ip)

\* the store after the cleanup callback ran at time t, were an entry deleted
\* from the instant of its resetTime on
StoreAfterCleanupEager(map, t) ==
  [ip \in IPs |->
     IF map[ip] # Nothing /\ map[ip].resetTime <= t THEN Nothing ELSE map[ip]]

\* the store after the cleanup callback ran at time t
StoreAfterCleanup(map, t) ==
  [ip \in IPs |->
     IF map[ip] # Nothing /\ map[ip].resetTime < t THEN Nothing ELSE map[ip]]

\* history: the window of an IP as the policy defines it, 15 minutes from the
\* first request that finds no window open; w is Nothing or [start, seen]
WindowOver(w, t) ==
  IF w = Nothing THEN TRUE ELSE t > w.start + 15 * 60 * 1000

WindowAfterCheck(w, t) ==
  IF WindowOver(w, t) THEN [start |-> t, seen |-> 1]
  ELSE [w EXCEPT !.seen = @ + 1]

\* the count to stop at
CanCount(map, ip, t) ==
  IF NoEntryOrExpired(map, ip, t) THEN TRUE ELSE map[ip].count < MaxCount

LimiterInit ==
  /\ now = 0 /\ ticks = 0
  /\ rateLimitStore = EmptyStore
  /\ cleanupTimer = FALSE
  /\ window = [ip \in IPs |-> Nothing]
  /\ last = [op |-> "none"]
  /\ uncleaned = EmptyStore
  /\ AnalyzerParked /\ RouteParked /\ DemoParked /\ PureParked /\ PageParked

\* time passes
Tick(d) ==
  /\ ticks < MaxTicks
  /\ now' = now + d
  /\ ticks' = ticks + 1
  /\ UNCHANGED <<rateLimitStore, cleanupTimer, window, last, uncleaned>>

\* checkRateLimit(ip)
CheckRateLimit(ip) ==
  /\ CanCount(rateLimitStore, ip, now)
  /\ cleanupTimer' = TRUE
  /\ rateLimitStore' = StoreAfterCheck(rateLimitStore, ip, now)
  /\ window' = [window EXCEPT ![ip] = WindowAfterCheck(@, now)]
  /\ last' = [op |-> "check", ip |-> ip, at |-> now, before |-> window[ip],
              result |-> CheckResult(rateLimitStore, ip, now),
              uncleaned |-> CheckResult(uncleaned, ip, now)]
  /\ uncleaned' = StoreAfterCheck(uncleaned, ip, now)
  /\ UNCHANGED <<now, ticks>>

\* resetRateLimit(ip)
ResetRateLimit(ip) ==
  /\ rateLimitStore' = StoreAfterReset(rateLimitStore, ip)
  /\ window' = [window EXCEPT ![ip] = Nothing]
  /\ last' = [op |-> "reset", ip |-> ip, at |-> now]
  /\ uncleaned' = StoreAfterReset(uncleaned, ip)
  /\ UNCHANGED <<now, ticks, cleanupTimer>>

\* clearAllRateLimits()
ClearAllRateLimits ==
  /\ rateLimitStore' = EmptyStore
  /\ window' = [ip \in IPs |-> Nothing]
  /\ last' = [op |-> "clear", at |-> now]
  /\ uncleaned' = EmptyStore
  /\ UNCHANGED <<now, ticks, cleanupTimer>>

\* the setInterval callback of startCleanup fires
Cleanup ==
  /\ cleanupTimer
  /\ rateLimitStore' = StoreAfterCleanup(rateLimitStore, now)
  /\ UNCHANGED <<now, ticks, cleanupTimer, window, last, uncleaned>>

LimiterNext ==
  \/ \E d \in Steps : Tick(d) /\ UNCHANGED <<vars, req, runs, pureVars, pageVars>>
  \/ \E ip \in IPs : CheckRateLimit(ip) /\ UNCHANGED <<vars, req, runs, pureVars, pageVars>>
  \/ \E ip \in IPs : ResetRateLimit(ip) /\ UNCHANGED <<vars, req, runs, pureVars, pageVars>>
  \/ ClearAllRateLimits /\ UNCHANGED <<vars, req, runs, pureVars, pageVars>>
  \/ Cleanup /\ UNCHANGED <<vars, req, runs, pureVars, pageVars>>

LimiterSpec == LimiterInit /\ [][LimiterNext]_limiterVars

(***************************************************************************)
(* Claims about the rate limiter                                           *)
(***************************************************************************)
\* the last operation was checkRateLimit
Checked == last.op = "check"

\* the position of the last checked request in the window of its IP
Position ==
  IF WindowOver(last.before, last.at) THEN 1 ELSE last.before.seen + 1

\* C11: in every 15-minute window of an IP the k-th checkRateLimit, k from 1
\* to 10, is allowed with remaining = 10 - k, and the 11th and every later one
\* is rejected with allowed = false and remaining = 0.
C11_TenPerWindow ==
  Checked =>
    IF Position <= 10
      THEN last.result.allowed /\ last.result.remaining = 10 - Position
      ELSE ~last.result.allowed /\ last.result.remaining = 0

\* the 12th request of a window has been rejected
C11_Witness ==
  /\ Checked /\ Position = 12
  /\ ~last.result.allowed /\ last.result.remaining = 0

\* the last checked request came after the window of its IP had expired
AfterExpiry ==
  /\ Checked /\ last.before # Nothing
  /\ last.at > last.before.start + 15 * 60 * 1000

\* C12: the first checkRateLimit after the window of an IP expired is allowed
\* with remaining = 9 and a resetTime of the current time plus 15 minutes,
\* whatever was counted in the previous window.
C12_NewWindowAfterExpiry ==
  AfterExpiry =>
    /\ last.result.allowed
    /\ last.result.remaining = 9
    /\ last.result.resetTime = last.at + 15 * 60 * 1000

\* a window with blocked requests expired and the next request was allowed
C12_Witness ==
  /\ AfterExpiry /\ last.before.seen > 10
  /\ last.result.allowed /\ last.result.remaining = 9

\* C14: checkRateLimit(ip) and resetRateLimit(ip) leave the entry of every
\* other IP as it was, and a request is only ever blocked by the count of its
\* own IP.
C14_PerIpState ==
  /\ [][\A ip \in IPs :
          (CheckRateLimit(ip) \/ ResetRateLimit(ip)) =>
            \A other \in IPs \ {ip} :
              rateLimitStore'[other] = rateLimitStore[other]]_limiterVars
  /\ [](Checked /\ ~last.result.allowed =>
          last.before # Nothing /\ last.before.seen >= 10)

\* one IP is over its quota, and a request of another IP has been allowed
C14_Witness ==
  /\ Checked /\ last.result.allowed
  /\ \E other \in IPs \ {last.ip} :
       /\ rateLimitStore[other] # Nothing
       /\ rateLimitStore[other].count > 10
       /\ ~(rateLimitStore[other].resetTime < now)


\* C27: the cleanup of the store is invisible to callers: whenever the timer
\* fired, every checkRateLimit returns the allowed, remaining and resetTime it
\* returns in the run of the same calls without cleanup; the cleanup deletes
\* only entries that checkRateLimit treats as expired.
C27_CleanupInvisible ==
  /\ Checked => last.result = last.uncleaned
  /\ \A ip \in IPs :
       rateLimitStore[ip] # uncleaned[ip] =>
         /\ rateLimitStore[ip] = Nothing
         /\ NoEntryOrExpired(uncleaned, ip, now)

\* a check of an IP whose expired entry the cleanup had deleted, with other
\* entries left in the store
C27_Witness ==
  /\ Checked
  /\ last.result = last.uncleaned
  /\ \E ip \in IPs :
       /\ ip # last.ip
       /\ rateLimitStore[ip] = Nothing
       /\ uncleaned[ip] # Nothing
  /\ last.before # Nothing /\ WindowOver(last.before, last.at)

\* the first request of the window the last checked request found open
WindowStart == last.before.start

MAX_SIZE == 100 * 1024

\* request.headers.get(name): null, or the header's text as code units
NoHeader == [present |-> FALSE, value |-> <<>>]
Header(s) == [present |-> TRUE, value |-> s]

\* parseInt(text): leading blanks, an optional sign, then the longest run of
\* decimal digits; NaN when there is no digit
RECURSIVE DigitRun(_,_,_)
DigitRun(s, i, acc) ==
  IF i > Len(s) THEN [nan |-> FALSE, value |-> acc]
  ELSE IF s[i] \notin 48..57 THEN [nan |-> FALSE, value |-> acc]
  ELSE DigitRun(s, i + 1, acc * 10 + (s[i] - 48))

RECURSIVE SkipBlanks(_,_)
SkipBlanks(s, i) ==
  IF i > Len(s) THEN i ELSE IF s[i] = 32 THEN SkipBlanks(s, i + 1) ELSE i

ParseInt(s) ==
  LET b == SkipBlanks(s, 1)
      signed == IF b > Len(s) THEN FALSE ELSE s[b] \in {43, 45}
      d == IF signed THEN b + 1 ELSE b
      digit == IF d > Len(s) THEN FALSE ELSE s[d] \in 48..57
      run == DigitRun(s, d, 0)
  IN IF ~digit THEN [nan |-> TRUE, value |-> 0]
     ELSE IF signed THEN (IF s[b] = 45 THEN [run EXCEPT !.value = 0 - @] ELSE run)
     ELSE run

\* contentLength && parseInt(contentLength) > MAX_SIZE
DeclaredTooLargeOrEqual(h) ==
  IF ~h.present THEN FALSE
  ELSE IF h.value = <<>> THEN FALSE
  ELSE IF ParseInt(h.value).nan THEN FALSE
  ELSE ParseInt(h.value).value >= MAX_SIZE

DeclaredTooLarge(h) ==
  IF ~h.present THEN FALSE
  ELSE IF h.value = <<>> THEN FALSE
  ELSE IF ParseInt(h.value).nan THEN FALSE
  ELSE ParseInt(h.value).value > MAX_SIZE

\* JSON values
Json(t, v) == [t |-> t, v |-> v]
Undefined == Json("undefined", 0)

\* obj[key]
Get(obj, key) == IF key \in DOMAIN obj.v THEN obj.v[key] ELSE Undefined

\* the keys of VeteranProfileSchema in the order they are declared, with the
\* type of each, its lower bound where it has one, and the bound's message
Field(key, kind, min, message) ==
  [key |-> key, kind |-> kind, min |-> min, message |-> message]

VeteranProfileFields ==
  << Field("branch", "string", 1, "Branch is required"),
     Field("yearsOfService", "number", 0, "Years of service must be positive"),
     Field("rank", "string", 1, "Rank is required"),
     Field("mos", "string", 1, "MOS is required"),
     Field("technicalSkills", "array", 0, ""),
     Field("certifications", "array", 0, ""),
     Field("leadershipExperience", "string", 0, ""),
     Field("familyStatus", "string", 1, "Family status is required"),
     Field("dependents", "number", 0, "Number must be greater than or equal to 0"),
     Field("spouseEmployment", "string", 0, ""),
     Field("currentLocation", "string", 1, "Current location is required"),
     Field("willingToRelocate", "boolean", 0, ""),
     Field("preferredLocations", "array", 0, ""),
     Field("careerGoals", "string", 1, "Career goals are required"),
     Field("incomeExpectations", "string", 1, "Income expectations are required"),
     Field("educationInterest", "string", 1, "Education interest is required"),
     Field("timeline", "string", 1, "Timeline is required") >>

\* a zod issue; the path is kept as text segments, an array index in decimal
Issue(path, message) == [path |-> path, message |-> message]

\* the message of an invalid_type issue
InvalidType(expected, received) ==
  IF received = "undefined" THEN "Required"
  ELSE "Expected " \o expected \o ", received " \o received

\* z.array(z.string()) on an array: one issue per element that is no string
RECURSIVE ElementIssues(_,_,_)
ElementIssues(key, elems, i) ==
  IF i > Len(elems) THEN <<>>
  ELSE (IF elems[i].t = "string" THEN <<>>
        ELSE <<Issue(<<key, ToString(i - 1)>>, InvalidType("string", elems[i].t))>>)
       \o ElementIssues(key, elems, i + 1)

\* z.array(z.string())
ArrayIssues(key, x) ==
  IF x.t # "array" THEN <<Issue(<<key>>, InvalidType("array", x.t))>>
  ELSE ElementIssues(key, x.v, 1)

\* the issues of one key of the schema
FieldIssues(f, x) ==
  IF f.kind = "array" THEN ArrayIssues(f.key, x)
  ELSE IF x.t # f.kind THEN <<Issue(<<f.key>>, InvalidType(f.kind, x.t))>>
  ELSE IF f.kind = "string"
    THEN (IF f.min = 1 /\ x.v = "" THEN <<Issue(<<f.key>>, f.message)>> ELSE <<>>)
  ELSE IF f.kind = "number"
    THEN (IF x.v < f.min THEN <<Issue(<<f.key>>, f.message)>> ELSE <<>>)
  ELSE <<>>

\* zod stops at the first issue
RECURSIVE ObjectIssuesFirstOnly(_,_)
ObjectIssuesFirstOnly(obj, k) ==
  IF k > Len(VeteranProfileFields) THEN <<>>
  ELSE LET here == FieldIssues(VeteranProfileFields[k], Get(obj, VeteranProfileFields[k].key))
       IN IF here # <<>> THEN <<here[1]>> ELSE ObjectIssuesFirstOnly(obj, k + 1)

\* z.object({...}) collects the issues of all its keys, in declaration order
RECURSIVE ObjectIssues(_,_)
ObjectIssues(obj, k) ==
  IF k > Len(VeteranProfileFields) THEN <<>>
  ELSE FieldIssues(VeteranProfileFields[k], Get(obj, VeteranProfileFields[k].key))
       \o ObjectIssues(obj, k + 1)

\* the issues VeteranProfileSchema.parse(body) throws with; none when it returns
VeteranProfileIssues(body) ==
  IF body.t # "object" THEN <<Issue(<<>>, InvalidType("object", body.t))>>
  ELSE ObjectIssues(body, 1)

\* what VeteranProfileSchema.parse(body) returns: the declared keys only
VeteranProfileParse(body) ==
  Strip(body.v, {VeteranProfileFields[i].key : i \in 1..Len(VeteranProfileFields)})

\* issue.path.join('.')
RECURSIVE JoinPath(_)
JoinPath(path) ==
  IF path = <<>> THEN ""
  ELSE IF Len(path) = 1 THEN path[1]
  ELSE path[1] \o "." \o JoinPath(Tail(path))

\* error.issues.map(issue => ({field: issue.path.join('.'), message}))
Details(issues) ==
  [i \in 1..Len(issues) |->
     [field |-> JoinPath(issues[i].path), message |-> issues[i].message]]

\* a body that passes the schema
ValidBody ==
  Json("object",
    [branch |-> Json("string", "Army"),
     yearsOfService |-> Json("number", 8),
     rank |-> Json("string", "E-6"),
     mos |-> Json("string", "25B"),
     technicalSkills |-> Json("array", <<Json("string", "Linux")>>),
     certifications |-> Json("array", <<>>),
     leadershipExperience |-> Json("string", ""),
     familyStatus |-> Json("string", "Married"),
     dependents |-> Json("number", 0),
     spouseEmployment |-> Json("string", ""),
     currentLocation |-> Json("string", "Austin, TX"),
     willingToRelocate |-> Json("boolean", TRUE),
     preferredLocations |-> Json("array", <<Json("string", "Denver, CO")>>),
     careerGoals |-> Json("string", "Network engineering"),
     incomeExpectations |-> Json("string", "80k"),
     educationInterest |-> Json("string", "Bachelor degree in CS"),
     timeline |-> Json("string", "6 months")])

\* obj with obj[key] = value
With(obj, key, value) ==
  Json("object", [k \in DOMAIN obj.v \cup {key} |-> IF k = key THEN value ELSE obj.v[k]])

\* the JSON documents a request may carry
Documents ==
  { ValidBody,
    With(ValidBody, "admin", Json("boolean", TRUE)),
    Json("object", Without(ValidBody.v, "technicalSkills")),
    Json("object", Without(Without(ValidBody.v, "certifications"), "preferredLocations")),
    With(ValidBody, "technicalSkills",
         Json("array", <<Json("number", 1), Json("string", "Linux"), Json("null", 0)>>)),
    With(With(With(ValidBody, "branch", Json("string", "")),
              "yearsOfService", Json("number", 0 - 1)),
         "willingToRelocate", Json("string", "yes")),
    Json("array", <<>>) }

\* the length of a short document's JSON.stringify text
ShortLength == 431

\* a request body: text that is no JSON, or a JSON document together with the
\* length of its JSON.stringify text (a long free-text answer makes any
\* document as long as wanted)
MalformedBody == [malformed |-> TRUE, json |-> Undefined, length |-> 0]
Body(json, length) == [malformed |-> FALSE, json |-> json, length |-> length]

Bodies ==
  {MalformedBody}
    \cup {Body(d, ShortLength) : d \in Documents}
    \cup {Body(ValidBody, n) : n \in {MAX_SIZE, MAX_SIZE + 1}}

\* the content-length headers a request may carry: none, "", "102400",
\* "102401", "abc"
ContentLengths ==
  { NoHeader, Header(<<>>), Header(Digits(MAX_SIZE)),
    Header(Digits(MAX_SIZE + 1)), Header(<<97, 98, 99>>) }

\* the client of the requests
RouteIPs == {"10.0.0.1"}

\* await analyzeProfile(profile) returns a result or throws: "Demo failure",
\* "Anthropic API key invalid", or a value that is no Error
AnalyzeOutcomes ==
  { [ok |-> TRUE, result |-> "AnalysisResult", error |-> NonError(<<>>)],
    [ok |-> FALSE, result |-> "",
     error |-> ErrorValue("Error", <<68, 101, 109, 111, 32, 102, 97, 105, 108, 117, 114, 101>>)],
    [ok |-> FALSE, result |-> "",
     error |-> ErrorValue("Error", <<65, 110, 116, 104, 114, 111, 112, 105, 99, 32, 65, 80, 73,
                                     32, 107, 101, 121, 32, 105, 110, 118, 97, 108, 105, 100>>)],
    [ok |-> FALSE, result |-> "", error |-> NonError(<<111, 111, 112, 115>>)] }

\* request.json() throws a SyntaxError: "Unexpected token"
JsonSyntaxError ==
  ErrorValue("SyntaxError", <<85, 110, 101, 120, 112, 101, 99, 116, 101, 100, 32,
                              116, 111, 107, 101, 110>>)

\* Math.ceil(ms / 1000)
CeilSeconds(ms) ==
  IF ms >= 0 THEN (ms + 999) \div 1000 ELSE 0 - ((0 - ms) \div 1000)

\* the 429 response
TooManyRequests(result, t) ==
  LET retryAfter == CeilSeconds(result.resetTime - t)
  IN [status |-> 429,
      headers |-> { <<"Retry-After", ToString(retryAfter)>>,
                    <<"X-RateLimit-Limit", "10">>,
                    <<"X-RateLimit-Remaining", "0">>,
                    <<"X-RateLimit-Reset", ToString(result.resetTime)>> },
      body |-> [error |-> "Rate limit exceeded",
                message |-> "Too many requests. Please try again later.",
                retryAfter |-> retryAfter]]

\* the 413 response
TooLarge ==
  [status |-> 413, headers |-> {},
   body |-> [error |-> "Request too large",
             message |-> "Request body exceeds 100KB limit"]]

\* the 400 response of the catch clause
BadRequest(issues) ==
  [status |-> 400, headers |-> {},
   body |-> [error |-> "Invalid request body", details |-> Details(issues)]]

\* the 500 response of the catch clause, were the message of every Error passed on
ServerErrorVerbatim(error) ==
  [status |-> 500, headers |-> {},
   body |-> [error |->
     IF error.isError
       THEN error.message
       ELSE <<70, 97, 105, 108, 101, 100, 32, 116, 111, 32, 97, 110, 97, 108, 121,
              122, 101, 32, 112, 114, 111, 102, 105, 108, 101>>]]

\* the 500 response of the catch clause; "API", "Failed to analyze profile"
ServerError(error) ==
  [status |-> 500, headers |-> {},
   body |-> [error |->
     IF error.isError /\ ~Includes(error.message, <<65, 80, 73>>)
       THEN error.message
       ELSE <<70, 97, 105, 108, 101, 100, 32, 116, 111, 32, 97, 110, 97, 108, 121,
              122, 101, 32, 112, 114, 111, 102, 105, 108, 101>>]]

\* the 200 response
Success(result, limit) ==
  [status |-> 200,
   headers |-> { <<"X-RateLimit-Limit", "10">>,
                 <<"X-RateLimit-Remaining", ToString(limit.remaining)>>,
                 <<"X-RateLimit-Reset", ToString(limit.resetTime)>> },
   body |-> result]

\* the request answers
Respond(r, step, res) ==
  [r EXCEPT !.pc = "done", !.steps = Append(@, step), !.response = res]

\* POST up to await request.json(): the rate limit, then the declared size
Receive(ip, contentLength) ==
  /\ req.pc \in {"idle", "done"}
  /\ CheckRateLimit(ip)
  /\ LET limit == CheckResult(rateLimitStore, ip, now)
         r == [pc |-> "json", ip |-> ip, contentLength |-> contentLength,
               body |-> Nothing, limit |-> limit, steps |-> <<>>,
               analyzed |-> 0, logged |-> 0, profile |-> Nothing,
               response |-> Nothing, error |-> Nothing]
     IN req' =
          IF ~limit.allowed
            THEN Respond(r, "rateLimit", TooManyRequests(limit, now))
          ELSE IF DeclaredTooLarge(contentLength)
            THEN Respond([r EXCEPT !.steps = <<"rateLimit">>], "size", TooLarge)
          ELSE [r EXCEPT !.steps = <<"rateLimit", "size">>]

\* the catch clause of POST for an error that is no ZodError
CatchOther(r, step, error) ==
  Respond([r EXCEPT !.logged = @ + 1, !.error = error], step, ServerError(error))

\* POST from request.json() settling with the body to await analyzeProfile,
\* without the check of the body's length
AfterJsonUnchecked(r) ==
  IF r.body.malformed THEN CatchOther(r, "json", JsonSyntaxError)
  ELSE IF VeteranProfileIssues(r.body.json) # <<>>
    THEN Respond([r EXCEPT !.steps = @ \o <<"json", "size">>], "validate",
                 BadRequest(VeteranProfileIssues(r.body.json)))
  ELSE [r EXCEPT !.pc = "analyze", !.analyzed = @ + 1,
                 !.profile = VeteranProfileParse(r.body.json),
                 !.steps = @ \o <<"json", "size", "validate", "analyze">>]

\* POST from request.json() settling with the body to await analyzeProfile
AfterJson(r) ==
  IF r.body.malformed THEN CatchOther(r, "json", JsonSyntaxError)
  ELSE IF r.body.length > MAX_SIZE
    THEN Respond([r EXCEPT !.steps = Append(@, "json")], "size", TooLarge)
  ELSE IF VeteranProfileIssues(r.body.json) # <<>>
    THEN Respond([r EXCEPT !.steps = @ \o <<"json", "size">>], "validate",
                 BadRequest(VeteranProfileIssues(r.body.json)))
  ELSE [r EXCEPT !.pc = "analyze", !.analyzed = @ + 1,
                 !.profile = VeteranProfileParse(r.body.json),
                 !.steps = @ \o <<"json", "size", "validate", "analyze">>]

\* request.json() settles with the body the request carries
ReadBody(body) ==
  /\ req.pc = "json"
  /\ req' = AfterJson([req EXCEPT !.body = body])
  /\ UNCHANGED limiterVars

\* analyzeProfile(profile) settles; POST runs to its end
AnalyzeSettles(o) ==
  /\ req.pc = "analyze"
  /\ req' = IF o.ok THEN Respond(req, "respond", Success(o.result, req.limit))
            ELSE CatchOther(req, "respond", o.error)
  /\ UNCHANGED limiterVars

RouteInit ==
  /\ now = 0 /\ ticks = 0
  /\ rateLimitStore = EmptyStore
  /\ cleanupTimer = FALSE
  /\ window = [ip \in IPs |-> Nothing]
  /\ last = [op |-> "none"]
  /\ uncleaned = EmptyStore
  /\ req = [pc |-> "idle", ip |-> "", contentLength |-> NoHeader, body |-> Nothing,
            limit |-> Nothing, steps |-> <<>>, analyzed |-> 0, logged |-> 0,
            profile |-> Nothing, response |-> Nothing, error |-> Nothing]
  /\ AnalyzerParked /\ DemoParked /\ PureParked /\ PageParked

RouteNext ==
  \/ \E ip \in RouteIPs, h \in ContentLengths :
       Receive(ip, h) /\ UNCHANGED <<vars, runs, pureVars, pageVars>>
  \/ \E b \in Bodies : ReadBody(b) /\ UNCHANGED <<vars, runs, pureVars, pageVars>>
  \/ \E o \in AnalyzeOutcomes : AnalyzeSettles(o) /\ UNCHANGED <<vars, runs, pureVars, pageVars>>
  \/ \E d \in Steps : Tick(d) /\ UNCHANGED <<vars, req, runs, pureVars, pageVars>>
  \/ Cleanup /\ UNCHANGED <<vars, req, runs, pureVars, pageVars>>

RouteSpec == RouteInit /\ [][RouteNext]_routeVars

(***************************************************************************)
(* Claims about POST /api/analyze and profile validation                   *)
(***************************************************************************)
\* s is an initial part of t
IsPrefix(s, t) == Len(s) <= Len(t) /\ \A i \in 1..Len(s) : s[i] = t[i]

\* the request has been answered
Answered == req.pc = "done"

\* the request came when its IP had used up the 10 requests of its window
RateLimited == Position > 10

\* the request declares, or its body has, more than 100KB
Oversized ==
  \/ /\ req.contentLength.present
     /\ req.contentLength.value # <<>>
     /\ ~ParseInt(req.contentLength.value).nan
     /\ ParseInt(req.contentLength.value).value > 102400
  \/ /\ req.body # Nothing
     /\ ~req.body.malformed
     /\ req.body.length > 102400

\* the body was read as a JSON document
BodyRead == req.body # Nothing /\ ~req.body.malformed

\* the body read is no valid profile
Invalid == BodyRead /\ VeteranProfileIssues(req.body.json) # <<>>

\* C13: POST runs rate-limit check, size check, schema validation and analysis
\* in this order; analyzeProfile is invoked at most once and only after the
\* three checks passed; a rate-limited request answers 429, an oversized one
\* 413 and an invalid one 400, none of them invoking analyzeProfile.
C13_ChecksBeforeAnalysis ==
  req.pc # "idle" =>
    /\ IsPrefix(req.steps,
                <<"rateLimit", "size", "json", "size", "validate", "analyze", "respond">>)
    /\ req.analyzed = Cardinality({i \in 1..Len(req.steps) : req.steps[i] = "analyze"})
    /\ req.analyzed <= 1
    /\ req.analyzed = 1 => ~RateLimited /\ ~Oversized /\ BodyRead /\ ~Invalid
    /\ Answered /\ RateLimited => req.response.status = 429 /\ req.analyzed = 0
    /\ Answered /\ ~RateLimited /\ Oversized =>
         req.response.status = 413 /\ req.analyzed = 0
    /\ Answered /\ ~RateLimited /\ ~Oversized /\ Invalid =>
         req.response.status = 400 /\ req.analyzed = 0

\* an invalid profile within all limits has been answered 400 after the three
\* checks, without analysis
C13_Witness ==
  /\ Answered /\ ~RateLimited /\ ~Oversized /\ Invalid
  /\ req.steps = <<"rateLimit", "size", "json", "size", "validate">>
  /\ req.response.status = 400 /\ req.analyzed = 0

\* the keys of the profile schema whose value in the body read is not valid
Offending ==
  {VeteranProfileFields[i].key : i \in
     {k \in 1..Len(VeteranProfileFields) :
        FieldIssues(VeteranProfileFields[k],
                    Get(req.body.json, VeteranProfileFields[k].key)) # <<>>}}

\* a 400 response to a body that is a JSON object
Rejected ==
  /\ Answered /\ req.response.status = 400
  /\ BodyRead /\ req.body.json.t = "object"

\* the entries of the details list
Entries == {req.response.body.details[i] : i \in DOMAIN req.response.body.details}

\* the most elements an array of the documents has
MaxElements == 3

\* the paths that name a key of the profile or an element of its array
PathsOf(key) == {key} \cup {key \o "." \o ToString(i) : i \in 0..(MaxElements - 1)}

\* C15 as stated: the details list of a 400 response has one entry per invalid
\* field, naming the field and a message, and analysis does not run.
C15_OneEntryPerInvalidField ==
  Rejected =>
    /\ Len(req.response.body.details) = Cardinality(Offending)
    /\ \A key \in Offending : \E e \in Entries : e.field = key /\ e.message # ""
    /\ req.analyzed = 0

\* C15, amended: the details list of a 400 response names every invalid field,
\* not just the first, each entry with a path and a message and none for a
\* valid field; an invalid field has one entry, except an array with elements
\* that are no strings, which has one entry per such element under the path
\* field.index; analysis does not run.
C15_EveryInvalidFieldReported ==
  Rejected =>
    /\ Offending # {}
    /\ \A key \in Offending : \E e \in Entries : e.field \in PathsOf(key)
    /\ \A e \in Entries :
         /\ e.message # ""
         /\ \E key \in Offending : e.field \in PathsOf(key)
    /\ \A key \in Offending :
         LET n == Cardinality({i \in DOMAIN req.response.body.details :
                                req.response.body.details[i].field \in PathsOf(key)})
             x == Get(req.body.json, key)
         IN IF x.t = "array"
              THEN n = Cardinality({i \in DOMAIN x.v : x.v[i].t # "string"})
                   /\ \A e \in Entries : e.field # key
              ELSE n = 1 /\ \E e \in Entries : e.field = key
    /\ req.analyzed = 0

\* a body with three invalid fields has been answered with three entries
C15_Witness ==
  /\ Rejected /\ Cardinality(Offending) = 3
  /\ Len(req.response.body.details) = 3
  /\ req.analyzed = 0

\* the array fields of the profile
ArrayFields == {"technicalSkills", "certifications", "preferredLocations"}

\* C16: an array field absent from the input record defaults to the empty
\* list; it is rejected only when present but not an array of strings.
C16_AbsentArrayDefaultsToEmpty ==
  BodyRead /\ req.body.json.t = "object" /\ ~Oversized =>
    \A key \in ArrayFields :
      key \notin DOMAIN req.body.json.v =>
        /\ Answered /\ req.response.status = 400 =>
             \A e \in Entries : e.field # key
        /\ req.profile # Nothing => req.profile[key] = Json("array", <<>>)


\* the value of a header of the response
HeaderValues(name) == {h[2] : h \in {g \in req.response.headers : g[1] = name}}

\* C24 as stated: every 429 response carries a Retry-After header that is a
\* whole number of seconds, greater than 0 and at most 900, equal to the time
\* that remains until the window of the IP resets, rounded up to a second.
C24_RetryAfterPositive ==
  Answered /\ req.response.status = 429 =>
    \E v \in 1..(RATE_LIMIT_WINDOW_MS \div 1000) :
      /\ HeaderValues("Retry-After") = {ToString(v)}
      /\ v = CeilSeconds(req.limit.resetTime - last.at)

\* "API" and "Failed to analyze profile" in code units
S_API == <<65, 80, 73>>
S_Failed ==
  <<70, 97, 105, 108, 101, 100, 32, 116, 111, 32, 97, 110, 97, 108, 121,
    122, 101, 32, 112, 114, 111, 102, 105, 108, 101>>

\* a 500 response to what the try block threw
Failed == Answered /\ req.response.status = 500

\* C25: the error field of a 500 response is the message of the thrown Error
\* only when that message does not contain 'API', and 'Failed to analyze
\* profile' when it contains 'API' or the thrown value is no Error; so the
\* field never contains 'API'.
C25_NoApiTextExposed ==
  Failed =>
    /\ req.error # Nothing
    /\ req.error.isError /\ ~Includes(req.error.message, S_API) =>
         req.response.body.error = req.error.message
    /\ ~req.error.isError \/ Includes(req.error.message, S_API) =>
         req.response.body.error = S_Failed
    /\ ~Includes(req.response.body.error, S_API)

\* analyzeProfile threw an Error whose message contains 'API', and the 500
\* response carries the generic text
C25_Witness ==
  /\ Failed
  /\ req.analyzed = 1
  /\ req.error.isError /\ Includes(req.error.message, S_API)
  /\ req.response.body.error = S_Failed

\* the names of the headers of the response
HeaderNames == {h[1] : h \in req.response.headers}

\* C26 as stated: every response of POST (200, 400, 413, 429, 500) carries
\* X-RateLimit-Limit, X-RateLimit-Remaining and X-RateLimit-Reset, and
\* X-RateLimit-Remaining is the remaining count checkRateLimit returned for
\* the request.
C26_RateLimitHeadersOnEveryResponse ==
  Answered =>
    /\ {"X-RateLimit-Limit", "X-RateLimit-Remaining", "X-RateLimit-Reset"}
         \subseteq HeaderNames
    /\ HeaderValues("X-RateLimit-Remaining") = {ToString(req.limit.remaining)}
(***************************************************************************)
(* Runs of analyzeDemoMode, one after another                              *)
(***************************************************************************)
\* how many runs are followed
MaxDemoRuns == 3

\* validated profiles; the second and the fourth differ from the one before
\* them only in naming no degree
DemoProfiles ==
  { ProfileInfantry, [ProfileInfantry EXCEPT !.educationInterest = S_Certs],
    ProfileMedic, [ProfileMedic EXCEPT !.educationInterest = S_Certs],
    ProfileSignal }

\* the profile object the caller passed, after analyzeDemoMode returned, had
\* the join of the skills been made on the list reversed in place
DemoProfileAfterReverse(p) ==
  [p EXCEPT !.technicalSkills =
     [i \in 1..Len(@) |-> @[Len(@) + 1 - i]]]

\* the profile object the caller passed, after analyzeDemoMode returned:
\* analyzeDemoMode and the generators only read it
DemoProfileAfter(p) == p

\* analyzeDemoMode(profile)
RunDemo(p) ==
  /\ Len(runs) < MaxDemoRuns
  /\ runs' = Append(runs, [passed |-> p, held |-> DemoProfileAfter(p),
                           result |-> analyzeDemoMode(p, templates)])
  /\ templates' = DemoCatalogueAfter(p, templates)
  /\ UNCHANGED <<env, pc, profile, response, thrown, outcome, events, warnLog>>
  /\ UNCHANGED <<limiterVars, req, pureVars, pageVars>>

DemoInit ==
  /\ templates = PATHWAY_TEMPLATES
  /\ runs = <<>>
  /\ env = <<>> /\ pc = <<>> /\ profile = <<>> /\ response = <<>>
  /\ thrown = <<>> /\ outcome = <<>> /\ events = <<>> /\ warnLog = <<>>
  /\ LimiterParked /\ RouteParked /\ PureParked /\ PageParked

DemoNext == \E p \in DemoProfiles : RunDemo(p)

DemoSpec == DemoInit /\ [][DemoNext]_demoVars

\* the template of the catalogue as loaded that a profile selects
Selected(p) == SelectTemplate(p, PATHWAY_TEMPLATES)

\* C18: after any sequence of analyzeDemoMode calls the catalogue and every
\* profile passed are as before; every result carries the roadmaps and the
\* fast-income and max-upside credentials of its template verbatim, and the
\* balanced credentials are the template's, followed by the bachelor entry only
\* for a profile with an interest in a degree, whatever ran before.
C18_DemoLeavesInputsAlone ==
  /\ templates = PATHWAY_TEMPLATES
  /\ \A k \in DOMAIN runs :
       LET p == runs[k].passed
           t == Selected(p)
           r == runs[k].result.pathways
       IN /\ runs[k].held = p
          /\ r[1].roadmap = t.fastIncome.roadmap
          /\ r[2].roadmap = t.balanced.roadmap
          /\ r[3].roadmap = t.maxUpside.roadmap
          /\ r[1].requiredCredentials = t.fastIncome.credentials
          /\ r[3].requiredCredentials = t.maxUpside.credentials
          /\ r[2].requiredCredentials =
               IF HasHighEducationInterest(p)
                 THEN t.balanced.credentials \o <<BachelorCredential>>
                 ELSE t.balanced.credentials

\* a run with an interest in a degree was followed by a run on the same
\* template without, which returned the template's own credentials, one fewer
C18_Witness ==
  /\ Len(runs) >= 2
  /\ HasHighEducationInterest(runs[1].passed)
  /\ ~HasHighEducationInterest(runs[2].passed)
  /\ Selected(runs[1].passed) = Selected(runs[2].passed)
  /\ runs[2].result.pathways[2].requiredCredentials =
       Selected(runs[2].passed).balanced.credentials
  /\ Len(runs[1].result.pathways[2].requiredCredentials) =
       Len(runs[2].result.pathways[2].requiredCredentials) + 1

(***************************************************************************)
(* The pure functions of the Demo provider, applied to drawn arguments     *)
(***************************************************************************)
\* the longest mos drawn
MaxStrLen == 2

\* the code units strings are drawn from: "A", "z" and 0xFFFF
Alphabet == {65, 122, 65535}

\* all strings over the alphabet up to a length
Strings(n) == UNION {[1..k -> Alphabet] : k \in 0..n}

\* the parts of a profile that the hash reads: every short mos with or without
\* a branch and skills, and "Gyd" + "ZG_" with no skills, whose hash wraps to
\* -2^31
HashArgs ==
  { [mos |-> m, branch |-> b, technicalSkills |-> t] :
      m \in Strings(MaxStrLen), b \in {<<>>, S_Army},
      t \in {<<>>, <<S_Linux>>, <<S_Radio, S_Linux>>} }
  \cup { [mos |-> <<71, 121, 100>>, branch |-> <<90, 71, 95>>, technicalSkills |-> <<>>],
         [mos |-> S_11B, branch |-> S_Army, technicalSkills |-> <<S_Leadership>>] }

\* a profile and the number of a template for generateFastIncome
FastIncomeArgs ==
  { [profile |-> [p EXCEPT !.willingToRelocate = w], template |-> k] :
      p \in ValidProfiles, w \in BOOLEAN, k \in 1..Len(PATHWAY_TEMPLATES) }

\* the years of service drawn
ServiceYears == {0, 3, 4, 7, 8, 12}

\* a profile and the number of a template for generateMaxUpside
MaxUpsideArgs ==
  { [profile |-> [p EXCEPT !.yearsOfService = y], template |-> k] :
      p \in ValidProfiles, y \in ServiceYears, k \in 1..Len(PATHWAY_TEMPLATES) }

\* the answers drawn for educationInterest: "Bachelor degree in CS",
\* "MASTER of science", "Cisco certs", "bachelor", "master", "mBa", ""
EducationInterests ==
  {S_BachelorCS, S_MASTER, S_Certs, S_bachelor, S_master, <<109, 66, 97>>, <<>>}

\* a profile and the number of a template for generateBalanced
BalancedArgs ==
  { [profile |-> [p EXCEPT !.educationInterest = e], template |-> k] :
      p \in ValidProfiles, e \in EducationInterests, k \in 1..Len(PATHWAY_TEMPLATES) }

\* profiles that differ in the fields analyzeDemoMode reads and in those it
\* does not
PairProfiles ==
  UNION { { p,
            [p EXCEPT !.rank = "O-3", !.certifications = <<"PMP">>,
                      !.familyStatus = "Married", !.dependents = 2,
                      !.careerGoals = "Management", !.timeline = "Immediate"],
            [p EXCEPT !.yearsOfService = 8],
            [p EXCEPT !.willingToRelocate = ~@],
            [p EXCEPT !.educationInterest = S_BachelorCS],
            [p EXCEPT !.mos = S_11B, !.yearsOfService = 8] } :
          p \in {ProfileInfantry, ProfileMedic, ProfileSignal} }

PureInit ==
  /\ \/ arg \in {[fn |-> "simpleHash", of |-> a] : a \in HashArgs}
     \/ arg \in {[fn |-> "generateFastIncome", of |-> a] : a \in FastIncomeArgs}
     \/ arg \in {[fn |-> "generateBalanced", of |-> a] : a \in BalancedArgs}
     \/ arg \in {[fn |-> "generateMaxUpside", of |-> a] : a \in MaxUpsideArgs}
     \/ arg \in {[fn |-> "analyzeDemoMode", of |-> <<p, q>>] : p, q \in PairProfiles}
  /\ ret = Nothing
  /\ AnalyzerParked /\ LimiterParked /\ RouteParked /\ DemoParked /\ PageParked

\* hashInput, simpleHash(hashInput) and templateIndex of analyzeDemoMode
ApplyHash ==
  /\ arg.fn = "simpleHash" /\ ret = Nothing
  /\ ret' = [hashInput |-> HashInput(arg.of),
             hash |-> simpleHash(HashInput(arg.of)),
             templateIndex |-> TemplateIndex(arg.of, PATHWAY_TEMPLATES)]
  /\ UNCHANGED arg

\* generateFastIncome(profile, template) for the profile, and for the profile
\* that differs from it in willingToRelocate only
ApplyFastIncome ==
  /\ arg.fn = "generateFastIncome" /\ ret = Nothing
  /\ LET p == arg.of.profile
         q == [p EXCEPT !.willingToRelocate = ~@]
         t == PATHWAY_TEMPLATES[arg.of.template]
     IN ret' = [pathway |-> generateFastIncome(p, t, p.willingToRelocate),
                other |-> generateFastIncome(q, t, q.willingToRelocate)]
  /\ UNCHANGED arg

\* generateBalanced(profile, template, hasHighEducationInterest) as
\* analyzeDemoMode calls it
ApplyBalanced ==
  /\ arg.fn = "generateBalanced" /\ ret = Nothing
  /\ LET p == arg.of.profile
         t == PATHWAY_TEMPLATES[arg.of.template]
     IN ret' = [pathway |-> generateBalanced(p, t, HasHighEducationInterest(p))]
  /\ UNCHANGED arg

\* generateMaxUpside(profile, template, hasHighEducationInterest,
\* profile.yearsOfService) as analyzeDemoMode calls it
ApplyMaxUpside ==
  /\ arg.fn = "generateMaxUpside" /\ ret = Nothing
  /\ LET p == arg.of.profile
         t == PATHWAY_TEMPLATES[arg.of.template]
     IN ret' = [pathway |-> generateMaxUpside(p, t, HasHighEducationInterest(p),
                                              p.yearsOfService)]
  /\ UNCHANGED arg

\* analyzeDemoMode(profile) for two profiles
ApplyAnalyzeDemoMode ==
  /\ arg.fn = "analyzeDemoMode" /\ ret = Nothing
  /\ ret' = [first |-> analyzeDemoMode(arg.of[1], PATHWAY_TEMPLATES),
             second |-> analyzeDemoMode(arg.of[2], PATHWAY_TEMPLATES)]
  /\ UNCHANGED arg

PureNext ==
  \/ ApplyHash /\ UNCHANGED <<vars, limiterVars, req, runs, pageVars>>
  \/ ApplyFastIncome /\ UNCHANGED <<vars, limiterVars, req, runs, pageVars>>
  \/ ApplyBalanced /\ UNCHANGED <<vars, limiterVars, req, runs, pageVars>>
  \/ ApplyMaxUpside /\ UNCHANGED <<vars, limiterVars, req, runs, pageVars>>
  \/ ApplyAnalyzeDemoMode /\ UNCHANGED <<vars, limiterVars, req, runs, pageVars>>

PureSpec == PureInit /\ [][PureNext]_pureVars

(***************************************************************************)
(* Claims about the pure functions                                         *)
(***************************************************************************)
\* h * 31 + c modulo 2^32, in 16-bit halves
Times31Plus(h, c) ==
  [hi |-> (h.hi * 31 + (h.lo * 31 + c) \div 65536) % 65536,
   lo |-> (h.lo * 31 + c) % 65536]

\* the polynomial hash of the first n code units of s, modulo 2^32
RECURSIVE Polynomial(_, _)
Polynomial(s, n) ==
  IF n = 0 THEN [hi |-> 0, lo |-> 0] ELSE Times31Plus(Polynomial(s, n - 1), s[n])

\* the magnitude of the 32-bit two's complement number h
Magnitude(h) ==
  IF h.hi < 32768 THEN h
  ELSE IF h.lo = 0 THEN [hi |-> (65536 - h.hi) % 65536, lo |-> 0]
  ELSE [hi |-> 65535 - h.hi, lo |-> 65536 - h.lo]

\* m modulo 5, for a magnitude m of at most 2^31 (2^31 = 5 * 429496729 + 3)
Modulo5(m) == IF m.hi = 32768 THEN 3 ELSE (m.hi * 65536 + m.lo) % 5

\* C19: the template index is the polynomial hash h = h*31 + charCode of
\* mos + branch + join(technicalSkills), wrapped to a signed 32-bit integer
\* after every character, in absolute value, modulo 5; it is an integer in
\* 0..4 for every string, also with no skills and with a hash of -2^31.
C19_TemplateIndexInRange ==
  (arg.fn = "simpleHash" /\ ret # Nothing) =>
    LET s == arg.of.mos \o arg.of.branch \o JoinEmpty(arg.of.technicalSkills)
        m == Magnitude(Polynomial(s, Len(s)))
    IN /\ ret.hashInput = s
       /\ ret.hash = m
       /\ ret.templateIndex = Modulo5(m)
       /\ ret.templateIndex \in 0..4

\* the hash of "GydZG_", with no skills, wrapped to -2^31, and the index is 3
C19_Witness ==
  /\ arg.fn = "simpleHash" /\ ret # Nothing
  /\ arg.of.technicalSkills = <<>>
  /\ Polynomial(ret.hashInput, Len(ret.hashInput)) = [hi |-> 32768, lo |-> 0]
  /\ ret.templateIndex = 3

\* the numbers in a text, read digit by digit, a comma inside a number skipped:
\* n is the number being read (-1 when none), from position i on
RECURSIVE Amounts(_, _, _)
Amounts(s, i, n) ==
  IF i > Len(s) THEN (IF n < 0 THEN <<>> ELSE <<n>>)
  ELSE IF s[i] \in 48..57
    THEN Amounts(s, i + 1, (IF n < 0 THEN 0 ELSE n * 10) + (s[i] - 48))
  ELSE IF s[i] = 44 THEN Amounts(s, i + 1, n)
  ELSE (IF n < 0 THEN <<>> ELSE <<n>>) \o Amounts(s, i + 1, 0 - 1)

\* C20: the fast-income base is the template's starting salary, plus 15000 when
\* willingToRelocate is true; the ranges are [base, base+10000],
\* [base+15000, base+25000] and [base+30000, base+45000]; two profiles that
\* differ only in willingToRelocate differ by exactly 15000 in the lower bound
\* of year 1.
C20_FastIncomeRanges ==
  (arg.fn = "generateFastIncome" /\ ret # Nothing) =>
    LET salary == PATHWAY_TEMPLATES[arg.of.template].fastIncome.startingSalary
        willing == arg.of.profile.willingToRelocate
        base == salary + (IF willing THEN 15000 ELSE 0)
        income == ret.pathway.incomeTrajectory
        lower == Amounts(income.year1, 1, 0 - 1)[1]
        otherLower == Amounts(ret.other.incomeTrajectory.year1, 1, 0 - 1)[1]
    IN /\ Amounts(income.year1, 1, 0 - 1) = <<base, base + 10000>>
       /\ Amounts(income.year3, 1, 0 - 1) = <<base + 15000, base + 25000>>
       /\ Amounts(income.year5, 1, 0 - 1) = <<base + 30000, base + 45000>>
       /\ IF willing THEN lower - otherLower = 15000
                     ELSE otherLower - lower = 15000

\* a profile willing to relocate got a year-1 range that starts 15000 above
\* the template's salary
C20_Witness ==
  /\ arg.fn = "generateFastIncome" /\ ret # Nothing
  /\ arg.of.profile.willingToRelocate
  /\ Amounts(ret.pathway.incomeTrajectory.year1, 1, 0 - 1)[1] =
       PATHWAY_TEMPLATES[arg.of.template].fastIncome.startingSalary + 15000

\* the lower bound of year 1 of the pathway computed, less the starting salary
\* of the template's pathway
Bonus(salary) == Amounts(ret.pathway.incomeTrajectory.year1, 1, 0 - 1)[1] - salary

\* C21: the max-upside base is the template's starting salary plus 15000
\* for yearsOfService >= 8, plus 8000 for 4 <= yearsOfService < 8 and plus 0
\* below 4: 0, 0, 8000, 8000, 15000, 15000 for 0, 3, 4, 7, 8, 12 years.
C21_ExperienceBonus ==
  (arg.fn = "generateMaxUpside" /\ ret # Nothing) =>
    LET y == arg.of.profile.yearsOfService
        bonus == Bonus(PATHWAY_TEMPLATES[arg.of.template].maxUpside.startingSalary)
    IN /\ y >= 8 => bonus = 15000
       /\ (y >= 4 /\ y < 8) => bonus = 8000
       /\ y < 4 => bonus = 0
       /\ <<y, bonus>> \in {<<0, 0>>, <<3, 0>>, <<4, 8000>>, <<7, 8000>>,
                            <<8, 15000>>, <<12, 15000>>}

\* seven years of service got 8000
C21_Witness ==
  /\ arg.fn = "generateMaxUpside" /\ ret # Nothing
  /\ arg.of.profile.yearsOfService = 7
  /\ Bonus(PATHWAY_TEMPLATES[arg.of.template].maxUpside.startingSalary) = 8000

\* the code unit c in lower case, and whether the text s has the lower-case
\* word somewhere in it in any letter case
Lower(c) == IF c \in 65..90 THEN c + 32 ELSE c
Mentions(s, word) ==
  \E k \in 0..(Len(s) - Len(word)) :
    \A j \in 1..Len(word) : Lower(s[k + j]) = word[j]

\* C22: the balanced base is the template's salary plus 10000, and the
\* credential list is the template's followed by exactly one "Bachelor's Degree
\* (optional accelerated program)" entry, if and only if educationInterest
\* contains "bachelor" or "master" in any letter case; otherwise the base is the
\* template's salary and the credentials are the template's.
C22_BonusAndCredentialTogether ==
  (arg.fn = "generateBalanced" /\ ret # Nothing) =>
    LET t == PATHWAY_TEMPLATES[arg.of.template].balanced
        e == arg.of.profile.educationInterest
        bonus == Bonus(t.startingSalary)
        got == ret.pathway.requiredCredentials
    IN IF Mentions(e, <<98, 97, 99, 104, 101, 108, 111, 114>>)
            \/ Mentions(e, <<109, 97, 115, 116, 101, 114>>)
         THEN /\ bonus = 10000
              /\ Len(got) = Len(t.credentials) + 1
              /\ SubSeq(got, 1, Len(t.credentials)) = t.credentials
              /\ got[Len(got)].name = "Bachelor's Degree (optional accelerated program)"
         ELSE bonus = 0 /\ got = t.credentials

\* "MASTER of science" got the bonus and the credential
C22_Witness ==
  /\ arg.fn = "generateBalanced" /\ ret # Nothing
  /\ arg.of.profile.educationInterest = S_MASTER
  /\ Bonus(PATHWAY_TEMPLATES[arg.of.template].balanced.startingSalary) = 10000
  /\ Len(ret.pathway.requiredCredentials) =
       Len(PATHWAY_TEMPLATES[arg.of.template].balanced.credentials) + 1


\* two profiles have been analyzed
Compared == arg.fn = "analyzeDemoMode" /\ ret # Nothing

\* the two profiles agree on the fields named
AgreeOn(fields) == \A f \in fields : arg.of[1][f] = arg.of[2][f]

\* the template chosen for a profile
TemplateOf(p) == TemplateIndex(p, PATHWAY_TEMPLATES)

SameTemplate == TemplateOf(arg.of[1]) = TemplateOf(arg.of[2])

\* C29: two profiles that agree on mos, branch and technicalSkills get the
\* same template; two with the same template that agree on willingToRelocate
\* get the same fast-income pathway, on educationInterest the same balanced
\* pathway, on yearsOfService the same max-upside pathway, whatever their other
\* fields are.
C29_PartsDependOnTheirFields ==
  Compared =>
    /\ AgreeOn({"mos", "branch", "technicalSkills"}) => SameTemplate
    /\ SameTemplate /\ AgreeOn({"willingToRelocate"}) =>
         ret.first.pathways[1] = ret.second.pathways[1]
    /\ SameTemplate /\ AgreeOn({"educationInterest"}) =>
         ret.first.pathways[2] = ret.second.pathways[2]
    /\ SameTemplate /\ AgreeOn({"yearsOfService"}) =>
         ret.first.pathways[3] = ret.second.pathways[3]

\* two profiles of different branch, skills and education interest that get
\* the same template and, serving equally long, the same max-upside pathway
\* but not the same balanced pathway
C29_Witness ==
  /\ Compared
  /\ SameTemplate /\ ~AgreeOn({"branch"}) /\ ~AgreeOn({"technicalSkills"})
  /\ AgreeOn({"yearsOfService"}) /\ ~AgreeOn({"educationInterest"})
  /\ HasHighEducationInterest(arg.of[1]) # HasHighEducationInterest(arg.of[2])
  /\ ret.first.pathways[3] = ret.second.pathways[3]
  /\ ret.first.pathways[2] # ret.second.pathways[2]
(***************************************************************************)
(* The page (app/page.tsx) in front of the analyzer                        *)
(***************************************************************************)
\* null, for results; errorMessage is <<>> when null and <<s>> when a string
Null == [null |-> TRUE]

\* the profiles the form is completed with: one that passes validation, one
\* that lacks what the Demo computation reads
LiveProfiles == {ProfileInfantry, Without(ProfileMedic, "educationInterest")}

\* what messages.create resolves with: a conforming analysis, or one that
\* fails validation
LiveResponses ==
  { EmitAnalysis(Payload(<<MockFast, MockBalanced, MockMax>>)),
    EmitAnalysis([pathways |-> <<MockFast, MockBalanced, MockMax>>]) }

\* the call of analyzeProfile that the next request is served by
NextCall == CHOOSE i \in Calls : pc[i] = "idle" /\ \A j \in Calls : j < i => pc[j] # "idle"

\* handleFormComplete up to await fetch(...)
HandleFormComplete(p) ==
  /\ stage = "intake"
  /\ \E i \in Calls : pc[i] = "idle"
  /\ stage' = "loading"
  /\ fetched' = [call |-> NextCall, profile |-> p, response |-> Null]
  /\ UNCHANGED <<results, errorMessage>>

\* the request is outstanding and the server has not yet taken it up
Outstanding ==
  /\ stage = "loading"
  /\ fetched.response = Null
  /\ pc[fetched.call] = "idle"

\* the server answers without an analysis (429, 413, 400 or 500): a response
\* that is not ok
ServerRefuses ==
  /\ Outstanding
  /\ fetched' = [fetched EXCEPT !.response = [ok |-> FALSE, body |-> Null]]
  /\ UNCHANGED <<stage, results, errorMessage>>

\* analyzeProfile settled and POST answers: 200 with the result, or 500, a
\* response that is not ok
ServerResponds ==
  /\ stage = "loading"
  /\ fetched.response = Null
  /\ pc[fetched.call] = "done"
  /\ fetched' = [fetched EXCEPT !.response =
       IF outcome[fetched.call].kind = "returned"
         THEN [ok |-> TRUE, body |-> outcome[fetched.call].result]
         ELSE [ok |-> FALSE, body |-> Null]]
  /\ UNCHANGED <<stage, results, errorMessage>>

\* the rest of handleFormComplete once fetch resolved, were a response that is
\* not ok only logged
AfterFetchOkOnly(res) ==
  IF res.ok
    THEN [stage |-> "results", results |-> res.body, errorMessage |-> <<>>]
    ELSE [stage |-> stage, results |-> results, errorMessage |-> errorMessage]

\* the rest of handleFormComplete once fetch resolved: stage, results and
\* errorMessage after the try block or the catch clause
AfterFetch(res) ==
  IF res.ok
    THEN [stage |-> "results", results |-> res.body, errorMessage |-> <<>>]
    ELSE [stage |-> "error", results |-> results,
          errorMessage |-> <<"We were unable to generate pathways. Please try again.">>]

\* fetch resolves with the server's response, and handleFormComplete runs on
FetchResolves ==
  /\ stage = "loading"
  /\ fetched.response # Null
  /\ stage' = AfterFetch(fetched.response).stage
  /\ results' = AfterFetch(fetched.response).results
  /\ errorMessage' = AfterFetch(fetched.response).errorMessage
  /\ UNCHANGED fetched

\* fetch rejects (the network failed), and the catch clause runs
FetchRejects ==
  /\ stage = "loading"
  /\ stage' = "error"
  /\ errorMessage' = <<"We were unable to generate pathways. Please try again.">>
  /\ UNCHANGED <<results, fetched>>

\* handleStartOver
HandleStartOver ==
  /\ stage \in {"results", "error"}
  /\ stage' = "intake"
  /\ results' = Null
  /\ errorMessage' = <<>>
  /\ UNCHANGED fetched

LiveInit ==
  /\ env \in {<<>>, <<"">>, <<"sk-test-key">>}
  /\ templates = PATHWAY_TEMPLATES
  /\ pc = [i \in Calls |-> "idle"]
  /\ profile = [i \in Calls |-> Nothing]
  /\ response = [i \in Calls |-> Nothing]
  /\ thrown = [i \in Calls |-> Nothing]
  /\ outcome = [i \in Calls |-> [kind |-> "pending"]]
  /\ events = [i \in Calls |-> <<>>]
  /\ warnLog = [i \in Calls |-> <<>>]
  /\ stage = "intake" /\ results = Null /\ errorMessage = <<>>
  /\ fetched = [call |-> 0, profile |-> Nothing, response |-> Null]
  /\ LimiterParked /\ RouteParked /\ DemoParked /\ PureParked

liveVars == <<vars, pageVars, ret>>

\* the steps of the remote collaborator for call i: it responds, or it fails
RemoteSettles(i) ==
  \/ \E m \in LiveResponses : RemoteResolve(i, m) /\ UNCHANGED pageVars
  \/ \E e \in RemoteFailures : RemoteReject(i, e) /\ UNCHANGED pageVars

\* the form is completed and the request reaches the server, which calls
\* analyzeProfile for it
SubmitAnalyzed(p) ==
  /\ HandleFormComplete(p)
  /\ \/ InvokeDemo(NextCall, p)
     \/ InvokeReal(NextCall, p)

\* the form is completed and the request is one the server will refuse
SubmitRefused(p) ==
  /\ HandleFormComplete(p)
  /\ UNCHANGED <<vars, routeVars, runs, pureVars>>

\* the server's answer to a request it does not analyze
Refuses ==
  ServerRefuses /\ UNCHANGED <<vars, routeVars, runs, pureVars>>

\* the server's answer once analyzeProfile settled
Responds == ServerResponds /\ UNCHANGED <<vars, routeVars, runs, pureVars>>

\* the page's continuation once fetch resolved
Resolves == FetchResolves /\ UNCHANGED <<vars, routeVars, runs, pureVars>>

LiveNext ==
  \/ \E p \in LiveProfiles : SubmitAnalyzed(p)
  \/ \E p \in LiveProfiles : SubmitRefused(p)
  \/ Refuses
  \/ \E i \in Calls : RemoteSettles(i)
  \/ Responds
  \/ Resolves
  \/ FetchRejects /\ UNCHANGED <<vars, routeVars, runs, pureVars>>
  \/ HandleStartOver /\ UNCHANGED <<vars, routeVars, runs, pureVars>>
  \/ QueryMode

\* what a step of RemoteSettles(i) does to pc: the await of messages.create
\* is over and analyzeProfile runs to its end
RemoteAnswers(i) ==
  /\ pc[i] = "awaitRemote"
  /\ pc' = [pc EXCEPT ![i] = "done"]

\* the server's and the page's continuations run when they can; the remote
\* collaborator of every call eventually responds or fails
LiveSpec ==
  /\ LiveInit /\ [][LiveNext]_liveVars
  /\ WF_liveVars(Refuses)
  /\ \A i \in Calls : WF_pc(RemoteAnswers(i))
  /\ WF_liveVars(Responds)
  /\ WF_liveVars(Resolves)

(***************************************************************************)
(* Claims about the mode query and the page                                *)
(***************************************************************************)
\* no credential is configured: the variable is unset or the empty string
NoCredential == env = <<>> \/ env = <<"">>

\* the branch analyzeProfile took for invocation i
BranchTaken(i) == IF events[i][1] = "analyzeDemoMode" THEN "demo" ELSE "real"

\* the mode query has been answered
Queried == ret # <<>>

\* C23: getCurrentMode returns 'demo' exactly when no credential is configured
\* (unset or empty) and 'real' otherwise; it names the branch that every
\* invocation of analyzeProfile takes under that configuration and the mode
\* the health endpoint reports; and the query changes nothing of the analyzer,
\* so no request to the remote collaborator is made by it
C23_ModeQueryAgrees ==
  /\ [](Queried =>
         /\ ret.mode = (IF NoCredential THEN "demo" ELSE "real")
         /\ ret.mode = ret.health
         /\ \A i \in Calls : events[i] # <<>> => BranchTaken(i) = ret.mode)
  /\ [][ret' # ret => UNCHANGED <<vars, pageVars>>]_liveVars

\* the query was answered with the variable set to the empty string, beside
\* an invocation that took the Demo branch
C23_Witness ==
  /\ Queried
  /\ env = <<"">>
  /\ \E i \in Calls : Done(i) /\ BranchTaken(i) = "demo"

\* analyzeProfile returned or raised for invocation i
Settled(i) == Done(i) /\ outcome[i].kind \in {"returned", "raised"}

\* C30: with a remote collaborator that eventually responds or fails, every
\* invocation of analyzeProfile that started eventually returns or raises, and
\* the page, once in stage 'loading', eventually reaches stage 'results' or
\* stage 'error'; in stage 'results' the result is not null
C30_EveryRequestFinishes ==
  /\ \A i \in Calls : (pc[i] # "idle") ~> Settled(i)
  /\ (stage = "loading") ~> (stage \in {"results", "error"})
  /\ [](stage = "results" => results # Null)

\* the page shows the Demo result that analyzeProfile fell back to after the
\* remote collaborator failed
C30_Witness ==
  /\ stage = "results"
  /\ results # Null
  /\ RemoteFailed(fetched.call)
  /\ results = outcome[fetched.call].result

====
